---- MODULE Spec2Model ----
(***************************************************************************)
(* Model of the code-execution worker of ukoly-monorepo: the sequential,   *)
(* streaming and per-test executors of the api-worker, the SandboxRuntime  *)
(* class, and the monitor.sh variants that enforce the limits.             *)
(*                                                                         *)
(* One behaviour follows one component, chosen by `kind` in Init:          *)
(*   "seq"     executeCodeSequential          (one sandbox, N test cases)  *)
(*   "stream"  handleWebSocketConnection + executeCodeStreaming            *)
(*   "batch"   handleCodeExecution + executeCode (Promise.all, N sandboxes)*)
(*   "runtime" successive SandboxRuntime.run calls on one SandboxRuntime   *)
(*   "tmon"    monitor.sh, timeout variant, parsed by the worker           *)
(*   "pmon"    monitor.sh, polling variant, parsed by executeCode          *)
(*   "bmon"    monitor.sh, background-monitor variant, parsed likewise     *)
(*   "gen"     the source text generated around a test case's stdin       *)
(*   "overlap" SandboxRuntime.run calls in flight at once on one runtime   *)
(*   "rate"    the RateLimiter object of one client key                    *)
(*   "http"    fetch and handleCodeExecution, up to the session they start *)
(*   "shared"  the loop of a session, with what the program leaves behind  *)
(*   "clients" the rate-limit checks of two clients                        *)
(*   "socket"  two execute requests sent on one WebSocket                  *)
(*   "register" concurrent /register requests of the auth worker           *)
(***************************************************************************)
EXTENDS Integers, Sequences, FiniteSets, TLC

\* ------------------------------------------------------------------ bounds
\* Largest number of test cases of a modelled request.
MaxTests == 2

\* ------------------------------------------------------- program constants
\* data.testCases.length > 20
MaxTestCases == 20

\* ------------------------------------------------------- language registry
Languages == {"javascript", "cpp", "c", "python", "rust", "java"}

\* LANGUAGE_CONFIG[lang].isCompiled
IsCompiled(l) == l \in {"cpp", "c", "rust", "java"}

\* LANGUAGE_CONFIG[lang].compileCommand is present
HasCompileCommand(l) == l \in {"cpp", "c", "rust", "java"}

\* LANGUAGE_CONFIG[lang].setupStdin is present
HasSetupStdin(l) == l \in {"javascript", "python"}

\* The languages a modelled session is run with: one interpreted language with
\* setupStdin, one compiled language, and the compiled language with the
\* Main-class wrapper.
SessionLanguages == {"javascript", "cpp", "java"}

\* The languages of the SandboxRuntime's LANGUAGE_CONFIG the model runs.
RuntimeLanguages == {"javascript", "cpp"}

\* ------------------------------------------------------------ value domains
NoError == "<none>"

\* Messages of the exceptions a sandbox call (exec, writeFile) may throw.
ErrMsgs == {"sandbox unavailable", "exec timeout"}

\* testError.message.includes("timeout")
MsgIncludesTimeout(m) == m = "exec timeout"

\* Exit codes the monitor command is seen to return inside a session.
SessionExitCodes == {0, 1, 124, 134, 137, 143}

\* Non-zero exit codes of the compile command.
CompileFailCodes == {1}

\* stderr of a failed compile command ("" models an empty stderr).
CompileStderrs == {"", "code.cpp:1: error"}

VARIABLES
    kind,      \* which component this behaviour follows
    lang,      \* language of the request
    nTests,    \* testCases.length
    pc,        \* position of the executor
    i,         \* loop index of the session (0-based, as in the code)
    results,   \* the `results` array of executeCodeSequential
    retval,    \* the value the executor returned
    log,       \* every call issued to the session's sandbox, in order
    compileResult, \* the result of the session's compile command
    req,       \* the execute request as the WebSocket handler sees it
    frames,    \* the frames delivered on the WebSocket, in order
    wsOpen,    \* the client is still connected
    sendThrows,\* platform: webSocket.send on a closed socket throws (else it is dropped)
    exc,       \* an exception is propagating out of executeCodeStreaming
    tasks,     \* the executeCode promises of the parallel handler, by position
    order,     \* the positions of those promises in the order they settled
    response,  \* the `results` array of the parallel handler's response
    compiled,  \* SandboxRuntime.compiled
    rejected,  \* the SandboxRuntime.run calls (0-based) whose promise rejected
    consumer,  \* the worker function that reads the monitor's output
    tLimit,    \* the time limit of the monitored run, in ms
    mLimit,    \* the memory limit of the monitored run, in KB
    now,       \* ms since the monitor started the command
    alive,     \* the processes of the monitored program still running (0 is $PID)
    parent,    \* the parent of each process other than $PID
    ignoresTerm, \* the supervised command survives SIGTERM
    signals,   \* the signals the monitor sent, in order
    rootExit,  \* how $PID ended: its own exit code and when, or killed
    mon,       \* the monitor script's shell variables
    out,       \* the outcome the worker built from the monitor's output
    progOut,   \* the text the monitored program wrote to its stdout
    actual,    \* the real elapsed ms and peak KB of the run, once it ended
    parsed,    \* stdout, timeMS and memoryKB of the worker's ExecutionResult
    sub,       \* the monitoring subshell of the background-monitor variant
    files,     \* its $MEMORY_FILE and $TIME_FILE
    sampled,   \* the KB read for each process in the current pass of the loop
    stdin,     \* testCase.stdin of the test case whose source is generated
    generator, \* the function that generates the source
    generated, \* whether it threw, and the text it put inside the string literal
    prog,      \* the generated program running: the lines its preamble holds, what input() returned
    calls,     \* the position of each SandboxRuntime.run call in flight at once
    fsys,      \* what /app/stdin.txt and the source file of their sandbox hold
    reads,     \* what the command of each of those calls found in the two files
    workload,  \* the program submitted and the stdin of each test case, where the program is followed
    clock,     \* Date.now() as the rate limiter of one client sees it
    stored,    \* the "requests" entry of its storage
    inflight,  \* its checkRateLimit calls that await storage: now and what they read
    answers,   \* the time and status of every check it answered, in order
    clients,   \* the route each client uses, where several clients are followed
    httpReq,   \* the HTTP request fetch was called with
    httpRes,   \* the Response it was answered with
    users      \* the rows of the users table of the auth worker

sessVars == <<lang, nTests, pc, i, results, retval, log, compileResult>>
wsVars == <<req, frames, wsOpen, sendThrows, exc>>
batchVars == <<tasks, order, response>>
rtVars == <<compiled, rejected>>
ioVars == <<progOut, actual, parsed>>
extVars == <<sub, files, sampled>>
genVars == <<stdin, generator, generated, prog>>
ovVars == <<calls, fsys, reads, workload>>
rlVars == <<clock, stored, inflight, answers, clients>>
httpVars == <<httpReq, httpRes, users>>
monVars == <<consumer, tLimit, mLimit, now, alive, parent, ignoresTerm, signals, rootExit, mon, out, ioVars, extVars>>
vars == <<kind, sessVars, wsVars, batchVars, rtVars, monVars, genVars, ovVars, rlVars, httpVars>>

\* The variables each component leaves alone.
offSeq == <<wsVars, batchVars, rtVars, monVars, genVars, ovVars, rlVars, httpVars>>
offStream == <<results, retval, batchVars, rtVars, monVars, genVars, ovVars, rlVars, httpVars>>
offBatch == <<i, results, retval, log, compileResult, wsVars, rtVars, monVars, genVars, ovVars, rlVars, httpVars>>
offRuntime == <<retval, compileResult, wsVars, batchVars, monVars, genVars, ovVars, rlVars, httpVars>>
offMonitor == <<lang, nTests, i, results, retval, log, compileResult, wsVars, batchVars, rtVars, genVars, ovVars, rlVars, httpVars>>
offGeneration == <<lang, nTests, i, results, retval, log, compileResult, wsVars, batchVars, rtVars, monVars, ovVars, rlVars, httpVars>>
offRate == <<pc, i, results, retval, log, compileResult, wsVars, batchVars, rtVars, monVars, genVars, ovVars, httpVars>>
offHttp == <<i, results, retval, log, compileResult, req, frames, wsOpen, sendThrows, exc, batchVars, rtVars, monVars, genVars, ovVars, rlVars, users>>
offOverlap == <<pc, i, results, retval, log, compileResult, wsVars, batchVars, rtVars, monVars, genVars, rlVars, httpVars>>

\* compileResult before the compile command has returned.
NoCompile == [exitCode |-> -1, stderr |-> ""]

\* The result of an executeCode promise that has not returned yet.
NoResult == [exitCode |-> -1, timedOut |-> FALSE, memoryExceeded |-> FALSE,
             stderr |-> "", error |-> "<pending>"]

\* ------------------------------------------------------------ sandbox calls
\* A call on the sandbox stub: recorded when issued, whether or not it throws.
SandboxCall(l, op, arg, tc) == Append(l, [op |-> op, arg |-> arg, tc |-> tc])

CountCalls(l, op, arg) ==
    Cardinality({k \in 1..Len(l) : l[k].op = op /\ l[k].arg = arg})

\* --------------------------------------------------- executeCodeSequential
\* The outcome pushed by the per-test catch block.
SeqTestErrorOutcome(idx, msg) ==
    [testCaseIndex |-> idx, exitCode |-> 1, timedOut |-> MsgIncludesTimeout(msg),
     memoryExceeded |-> FALSE, stderr |-> msg, error |-> msg]

\* Mutant of SeqSessionErrorOutcome: the timeout flag is derived from the
\* message, as the per-test catch block does.
SeqSessionErrorOutcome_TimeoutFlag(idx, msg) ==
    [testCaseIndex |-> idx, exitCode |-> 1, timedOut |-> MsgIncludesTimeout(msg),
     memoryExceeded |-> FALSE, stderr |-> msg, error |-> msg]

\* The outcome the outer catch block builds for every test case.
SeqSessionErrorOutcome(idx, msg) ==
    [testCaseIndex |-> idx, exitCode |-> 1, timedOut |-> FALSE,
     memoryExceeded |-> FALSE, stderr |-> msg, error |-> msg]

\* The outcome built for every test case when the compile command fails.
SeqCompileErrorOutcome(idx, cr) ==
    [testCaseIndex |-> idx, exitCode |-> cr.exitCode, timedOut |-> FALSE,
     memoryExceeded |-> FALSE,
     stderr |-> IF cr.stderr = "" THEN "Compilation failed" ELSE cr.stderr,
     error |-> "Compilation failed"]

\* The outcome pushed after the monitor command returned with exit code ec.
SeqMonitorOutcome(idx, ec) ==
    [testCaseIndex |-> idx, exitCode |-> ec, timedOut |-> (ec = 124),
     memoryExceeded |-> (ec = 137), stderr |-> "", error |-> NoError]

\* return testCases.map((_, index) => ({...})) of the outer catch block
SeqSessionErrorAll(msg) == [k \in 1..nTests |-> SeqSessionErrorOutcome(k - 1, msg)]

\* return testCases.map((_, index) => ({...})) after a failed compile
SeqCompileErrorAll(cr) == [k \in 1..nTests |-> SeqCompileErrorOutcome(k - 1, cr)]

\* A request that passes every gate of the handler.
GoodRequest == [json |-> TRUE, rate |-> 200, fields |-> TRUE, known |-> TRUE]

Requests == [json : BOOLEAN, rate : {200, 429}, fields : BOOLEAN, known : BOOLEAN]

\* How $PID stands while it has not ended.
Running == [how |-> "running", code |-> -1, at |-> -1]

MonitorShellInit ==
    [MAX_MEMORY |-> 0, MEMORY_EXCEEDED |-> FALSE, TIME_EXCEEDED |-> FALSE,
     EXIT_CODE |-> 0, EXECUTION_TIME |-> 0, STATUS |-> 0,
     TIME_MS |-> <<>>, MEM_KB |-> <<>>, ELAPSED_MS |-> 0]

\* The subshell's position and variables; a file of the temporary directory.
NoSub == [pc |-> "none", max_memory |-> 0, elapsed_ms |-> 0]
Absent == [state |-> "absent", value |-> 0]
NoFiles == [memory |-> Absent, time |-> Absent]

\* No run has ended, nothing has been parsed.
NoMeasure == [ms |-> -1, kb |-> -1]
NoParse == [stdout |-> <<>>, timeMS |-> -1, memoryKB |-> -1]

\* The monitor variables of the components that do not follow a monitor.
NoMonitor ==
    /\ consumer = "none" /\ tLimit = 0 /\ mLimit = 0 /\ now = 0
    /\ alive = {} /\ parent = <<>> /\ ignoresTerm = FALSE /\ signals = <<>>
    /\ rootExit = Running /\ mon = MonitorShellInit /\ out = NoResult
    /\ progOut = <<>> /\ actual = NoMeasure /\ parsed = NoParse
    /\ sub = NoSub /\ files = NoFiles /\ sampled = <<>>

\* Nothing is generated yet.
NoGenerated == [thrown |-> FALSE, literal |-> <<>>, source |-> <<>>]

\* The variables of source generation in the components that do not follow it.
\* The generated program has not started.
NoProg == [lines |-> <<>>, index |-> 0, returned |-> <<>>]

NoGeneration ==
    /\ stdin = <<>> /\ generator = "none" /\ generated = NoGenerated /\ prog = NoProg

\* The content of a file of the sandbox: not written yet, the code as
\* submitted, or (a number from 0) what was built from that test case's stdin.
Unwritten == -2
PlainCode == -1

EmptySandbox == [stdin |-> Unwritten, source |-> Unwritten, marker |-> FALSE]

\* No run calls are in flight at once.
NoWorkload == [program |-> "none", stdins |-> <<>>]

NoOverlap == calls = <<>> /\ fsys = EmptySandbox /\ reads = <<>> /\ workload = NoWorkload

\* No rate limiter is followed.
NoRateLimiter ==
    /\ clock = 0 /\ stored = <<>> /\ inflight = <<>> /\ answers = <<>> /\ clients = <<>>

\* The behaviour does not start at fetch.
NoHttpReq == [method |-> "", origin |-> "", path |-> "", upgrade |-> FALSE]
NoHttpRes == [status |-> 0, body |-> ""]
NoHttp == httpReq = NoHttpReq /\ httpRes = NoHttpRes /\ users = <<>>

InitSeq ==
    /\ kind = "seq"
    /\ lang \in SessionLanguages
    /\ nTests \in 0..MaxTests
    /\ pc = "start"
    /\ i = 0 /\ results = <<>> /\ retval = <<>> /\ log = <<>>
    /\ compileResult = NoCompile
    /\ req = GoodRequest /\ frames = <<>> /\ wsOpen = TRUE
    /\ sendThrows = FALSE /\ exc = FALSE
    /\ tasks = <<>> /\ order = <<>> /\ response = <<>>
    /\ compiled = FALSE /\ rejected = {}
    /\ NoMonitor /\ NoGeneration /\ NoOverlap /\ NoRateLimiter /\ NoHttp

InitStream ==
    /\ kind = "stream"
    /\ lang \in SessionLanguages
    /\ nTests \in (0..MaxTests) \cup {MaxTestCases + 1}
    /\ req \in Requests
    /\ req # GoodRequest => (lang = "javascript" /\ nTests = 0)
    /\ pc = "ws_message"
    /\ i = 0 /\ results = <<>> /\ retval = <<>> /\ log = <<>>
    /\ compileResult = NoCompile
    /\ frames = <<>> /\ wsOpen = TRUE
    /\ sendThrows \in BOOLEAN /\ exc = FALSE
    /\ tasks = <<>> /\ order = <<>> /\ response = <<>>
    /\ compiled = FALSE /\ rejected = {}
    /\ NoMonitor /\ NoGeneration /\ NoOverlap /\ NoRateLimiter /\ NoHttp

\* body.testCases.map(async (testCase, index) => ...): one promise per test case,
\* each with a sandbox of its own.
InitBatch ==
    /\ kind = "batch"
    /\ lang \in SessionLanguages
    /\ nTests \in 0..MaxTests
    /\ pc = "promiseAll"
    /\ i = 0 /\ results = <<>> /\ retval = <<>> /\ log = <<>>
    /\ compileResult = NoCompile
    /\ req = GoodRequest /\ frames = <<>> /\ wsOpen = TRUE
    /\ sendThrows = FALSE /\ exc = FALSE
    /\ tasks = [k \in 1..nTests |-> [pc |-> "start", log |-> <<>>, result |-> NoResult]]
    /\ order = <<>> /\ response = <<>>
    /\ compiled = FALSE /\ rejected = {}
    /\ NoMonitor /\ NoGeneration /\ NoOverlap /\ NoRateLimiter /\ NoHttp

\* new SandboxRuntime(sandbox, languageConfig, code), then nTests run calls
InitRuntime ==
    /\ kind = "runtime"
    /\ lang \in RuntimeLanguages
    /\ nTests \in 0..MaxTests
    /\ pc = "run"
    /\ i = 0 /\ results = <<>> /\ retval = <<>> /\ log = <<>>
    /\ compileResult = NoCompile
    /\ req = GoodRequest /\ frames = <<>> /\ wsOpen = TRUE
    /\ sendThrows = FALSE /\ exc = FALSE
    /\ tasks = <<>> /\ order = <<>> /\ response = <<>>
    /\ compiled = FALSE /\ rejected = {}
    /\ NoMonitor /\ NoGeneration /\ NoOverlap /\ NoRateLimiter /\ NoHttp


\* await sandbox.exec("echo 'Hello, world!'")
SeqStart ==
    /\ kind = "seq" /\ pc = "start"
    /\ log' = SandboxCall(log, "exec", "hello", -1)
    /\ \/ /\ pc' = "writeSource"
          /\ UNCHANGED retval
       \/ \E msg \in ErrMsgs :
             /\ retval' = SeqSessionErrorAll(msg)
             /\ pc' = "finally"
    /\ UNCHANGED <<kind, compileResult, lang, nTests, i, results, offSeq>>

\* Mutant of SeqWriteSource: a request without test cases skips the compile
\* command.
SeqWriteSource_SkipEmpty ==
    /\ kind = "seq" /\ pc = "writeSource"
    /\ log' = SandboxCall(log, "writeFile", "source", -1)
    /\ \/ /\ pc' = IF IsCompiled(lang) /\ HasCompileCommand(lang) /\ nTests > 0
                   THEN "compile" ELSE "loop"
          /\ UNCHANGED retval
       \/ \E msg \in ErrMsgs :
             /\ retval' = SeqSessionErrorAll(msg)
             /\ pc' = "finally"
    /\ UNCHANGED <<kind, compileResult, lang, nTests, i, results, offSeq>>

\* await sandbox.writeFile(fileName, codeForCompilation)
SeqWriteSource ==
    /\ kind = "seq" /\ pc = "writeSource"
    /\ log' = SandboxCall(log, "writeFile", "source", -1)
    /\ \/ /\ pc' = IF IsCompiled(lang) /\ HasCompileCommand(lang)
                   THEN "compile" ELSE "loop"
          /\ UNCHANGED retval
       \/ \E msg \in ErrMsgs :
             /\ retval' = SeqSessionErrorAll(msg)
             /\ pc' = "finally"
    /\ UNCHANGED <<kind, compileResult, lang, nTests, i, results, offSeq>>

\* Mutant of SeqCompile: the compile result is not checked, the loop runs anyway.
SeqCompile_NoReturn ==
    /\ kind = "seq" /\ pc = "compile"
    /\ log' = SandboxCall(log, "exec", "compile", -1)
    /\ \/ /\ \E ec \in {0} \cup CompileFailCodes, err \in CompileStderrs :
                compileResult' = [exitCode |-> ec, stderr |-> IF ec = 0 THEN "" ELSE err]
          /\ pc' = "loop"
          /\ UNCHANGED retval
       \/ \E msg \in ErrMsgs :
             /\ retval' = SeqSessionErrorAll(msg)
             /\ pc' = "finally"
             /\ UNCHANGED compileResult
    /\ UNCHANGED <<kind, lang, nTests, i, results, offSeq>>

\* const compileResult = await sandbox.exec(languageConfig.compileCommand)
SeqCompile ==
    /\ kind = "seq" /\ pc = "compile"
    /\ log' = SandboxCall(log, "exec", "compile", -1)
    /\ \/ /\ compileResult' = [exitCode |-> 0, stderr |-> ""]
          /\ pc' = "loop"
          /\ UNCHANGED retval
       \/ \E ec \in CompileFailCodes, err \in CompileStderrs :
             /\ compileResult' = [exitCode |-> ec, stderr |-> err]
             /\ retval' = SeqCompileErrorAll(compileResult')
             /\ pc' = "finally"
       \/ \E msg \in ErrMsgs :
             /\ retval' = SeqSessionErrorAll(msg)
             /\ pc' = "finally"
             /\ UNCHANGED compileResult
    /\ UNCHANGED <<kind, lang, nTests, i, results, offSeq>>

\* for (let i = 0; i < testCases.length; i++) ... return results
SeqLoop ==
    /\ kind = "seq" /\ pc = "loop"
    /\ \/ /\ i < nTests
          /\ pc' = "prepare"
          /\ UNCHANGED retval
       \/ /\ ~(i < nTests)
          /\ retval' = results
          /\ pc' = "finally"
    /\ UNCHANGED <<kind, compileResult, lang, nTests, i, results, log, offSeq>>

\* The writeFile of the loop body: the rewritten source of an interpreted
\* language, the stdin file of a compiled one.
SeqPrepare ==
    /\ kind = "seq" /\ pc = "prepare"
    /\ log' = SandboxCall(log, "writeFile",
                          IF IsCompiled(lang) THEN "stdin" ELSE "source", i)
    /\ \/ /\ pc' = "exec"
          /\ UNCHANGED <<i, results>>
       \/ \E msg \in ErrMsgs :
             /\ results' = Append(results, SeqTestErrorOutcome(i, msg))
             /\ i' = i + 1
             /\ pc' = "loop"
    /\ UNCHANGED <<kind, compileResult, lang, nTests, retval, offSeq>>

\* const result = await sandbox.exec(monitorCommand); results.push({...})
SeqExec ==
    /\ kind = "seq" /\ pc = "exec"
    /\ log' = SandboxCall(log, "exec", "monitor", i)
    /\ \/ \E ec \in SessionExitCodes :
             results' = Append(results, SeqMonitorOutcome(i, ec))
       \/ \E msg \in ErrMsgs :
             results' = Append(results, SeqTestErrorOutcome(i, msg))
    /\ i' = i + 1
    /\ pc' = "loop"
    /\ UNCHANGED <<kind, compileResult, lang, nTests, retval, offSeq>>

\* finally { try { await sandbox.destroy() } catch (destroyError) {...} }
SeqFinally ==
    /\ kind = "seq" /\ pc = "finally"
    /\ log' = SandboxCall(log, "destroy", "", -1)
    /\ pc' = "done"
    /\ UNCHANGED <<kind, compileResult, lang, nTests, i, results, retval, offSeq>>

executeCodeSequential ==
    \/ SeqStart \/ SeqWriteSource \/ SeqCompile \/ SeqLoop
    \/ SeqPrepare \/ SeqExec \/ SeqFinally

\* ------------------------------------- handleWebSocketConnection (message)
TerminalTypes == {"compilation_error", "error", "complete"}

Frame(type, data) == [type |-> type, data |-> data]

\* webSocket.send(JSON.stringify(f)): the frames the client has received after it.
Send(fr, f) == IF wsOpen THEN Append(fr, f) ELSE fr

\* webSocket.send throws (the socket is closed and the platform rejects the send).
SendFails == ~wsOpen /\ sendThrows

\* The handler's catch block: one more error frame; if that send throws too,
\* the listener's promise rejects and nothing more happens.
WsCatchSend(fr, msg) == Send(fr, Frame("error", [message |-> msg]))

\* The client closes the connection while the handler is suspended in an
\* await; the close listener only logs.
ClientClose ==
    /\ kind = "stream" /\ wsOpen /\ pc \notin {"ws_message", "done"}
    /\ wsOpen' = FALSE
    /\ UNCHANGED <<kind, compileResult, lang, nTests, pc, i, log, req, frames, sendThrows, exc, offStream>>

\* const data = JSON.parse(event.data): runs as soon as the message arrives;
\* then the handler awaits the rate limiter.
WsMessage ==
    /\ kind = "stream" /\ pc = "ws_message"
    /\ \/ /\ ~req.json
          /\ frames' = WsCatchSend(frames, "Unexpected token")
          /\ pc' = "done"
       \/ /\ req.json
          /\ frames' = frames
          /\ pc' = "ws_validate"
    /\ UNCHANGED <<kind, compileResult, lang, nTests, i, log, req, wsOpen, sendThrows, exc, offStream>>

\* After the rate limiter answered: check its status, validate the request,
\* limit the number of test cases, get the language configuration.
WsValidate ==
    /\ kind = "stream" /\ pc = "ws_validate"
    /\ \/ /\ req.rate # 200
          /\ frames' = IF SendFails
                       THEN WsCatchSend(frames, "send failed")
                       ELSE Send(frames, Frame("error", [message |-> "Rate limit exceeded"]))
          /\ pc' = "done"
       \/ /\ req.rate = 200 /\ ~req.fields
          /\ frames' = IF SendFails
                       THEN WsCatchSend(frames, "send failed")
                       ELSE Send(frames, Frame("error", [message |-> "Invalid request"]))
          /\ pc' = "done"
       \/ /\ req.rate = 200 /\ req.fields /\ nTests > MaxTestCases
          /\ frames' = IF SendFails
                       THEN WsCatchSend(frames, "send failed")
                       ELSE Send(frames, Frame("error", [message |-> "Too many test cases"]))
          /\ pc' = "done"
       \/ /\ req.rate = 200 /\ req.fields /\ ~(nTests > MaxTestCases) /\ ~req.known
          /\ frames' = IF SendFails
                       THEN WsCatchSend(frames, "send failed")
                       ELSE Send(frames, Frame("error", [message |-> "Language not supported"]))
          /\ pc' = "done"
       \/ /\ req.rate = 200 /\ req.fields /\ ~(nTests > MaxTestCases) /\ req.known
          /\ frames' = frames
          /\ pc' = "start"
    /\ UNCHANGED <<kind, compileResult, lang, nTests, i, log, req, wsOpen, sendThrows, exc, offStream>>

\* The handler's catch block, entered when executeCodeStreaming rejected.
WsCatch ==
    /\ kind = "stream" /\ pc = "ws_catch"
    /\ frames' = WsCatchSend(frames, "send failed")
    /\ pc' = "done"
    /\ UNCHANGED <<kind, compileResult, lang, nTests, i, log, req, wsOpen, sendThrows, exc, offStream>>

handleWebSocketConnection == ClientClose \/ WsMessage \/ WsValidate \/ WsCatch

\* ---------------------------------------------------- executeCodeStreaming
\* Mutant of StreamMonitorOutcome: the 1-based number of the log line
\* (i + 1) is used as testCaseIndex.
StreamMonitorOutcome_OneBased(idx, ec) ==
    [testCaseIndex |-> idx + 1, exitCode |-> ec, timedOut |-> (ec = 143),
     memoryExceeded |-> (ec = 134), stderr |-> "", error |-> NoError]

\* The result the loop body builds from the monitor's exit code.
StreamMonitorOutcome(idx, ec) ==
    [testCaseIndex |-> idx, exitCode |-> ec, timedOut |-> (ec = 143),
     memoryExceeded |-> (ec = 134), stderr |-> "", error |-> NoError]

\* The errorResult of the per-test catch block.
StreamTestErrorOutcome(idx, msg) ==
    [testCaseIndex |-> idx, exitCode |-> 1, timedOut |-> MsgIncludesTimeout(msg),
     memoryExceeded |-> FALSE, stderr |-> msg, error |-> msg]

\* Mutant of StreamOuterCatch: sandbox.destroy() at the end of the try block
\* instead of in finally, so the catch path leaves without it.
StreamOuterCatch_NoFinally(msg) ==
    /\ frames' = Send(frames, Frame("error", [message |-> msg]))
    /\ exc' = SendFails
    /\ pc' = IF SendFails THEN "ws_catch" ELSE "done"

\* The outer catch block: webSocket.send({type: 'error', data: message}).  When
\* that send throws as well, the exception leaves the function after finally.
StreamOuterCatch(msg) ==
    /\ frames' = Send(frames, Frame("error", [message |-> msg]))
    /\ exc' = SendFails
    /\ pc' = "finally"

\* await sandbox.exec("echo 'Hello, world!'")
StStart ==
    /\ kind = "stream" /\ pc = "start"
    /\ log' = SandboxCall(log, "exec", "hello", -1)
    /\ \/ /\ pc' = "writeSource"
          /\ UNCHANGED <<frames, exc>>
       \/ \E msg \in ErrMsgs : StreamOuterCatch(msg)
    /\ UNCHANGED <<kind, compileResult, lang, nTests, i, req, wsOpen, sendThrows, offStream>>

\* await sandbox.writeFile(fileName, codeForCompilation)
StWriteSource ==
    /\ kind = "stream" /\ pc = "writeSource"
    /\ log' = SandboxCall(log, "writeFile", "source", -1)
    /\ \/ /\ pc' = IF IsCompiled(lang) /\ HasCompileCommand(lang)
                   THEN "compile" ELSE "loop"
          /\ UNCHANGED <<frames, exc>>
       \/ \E msg \in ErrMsgs : StreamOuterCatch(msg)
    /\ UNCHANGED <<kind, compileResult, lang, nTests, i, req, wsOpen, sendThrows, offStream>>

\* Mutant of StCompile: the `return` after the compilation_error frame is missing.
StCompile_NoReturn ==
    /\ kind = "stream" /\ pc = "compile"
    /\ log' = SandboxCall(log, "exec", "compile", -1)
    /\ \/ /\ compileResult' = [exitCode |-> 0, stderr |-> ""]
          /\ pc' = "loop"
          /\ UNCHANGED <<frames, exc>>
       \/ \E ec \in CompileFailCodes, err \in CompileStderrs :
             /\ compileResult' = [exitCode |-> ec, stderr |-> err]
             /\ IF SendFails
                THEN StreamOuterCatch("send failed")
                ELSE /\ frames' = Send(frames, Frame("compilation_error",
                           [message |-> IF err = "" THEN "Compilation failed" ELSE err]))
                     /\ exc' = exc
                     /\ pc' = "loop"
       \/ /\ \E msg \in ErrMsgs : StreamOuterCatch(msg)
          /\ UNCHANGED compileResult
    /\ UNCHANGED <<kind, lang, nTests, i, req, wsOpen, sendThrows, offStream>>

\* const compileResult = await sandbox.exec(languageConfig.compileCommand)
StCompile ==
    /\ kind = "stream" /\ pc = "compile"
    /\ log' = SandboxCall(log, "exec", "compile", -1)
    /\ \/ /\ compileResult' = [exitCode |-> 0, stderr |-> ""]
          /\ pc' = "loop"
          /\ UNCHANGED <<frames, exc>>
       \/ \E ec \in CompileFailCodes, err \in CompileStderrs :
             /\ compileResult' = [exitCode |-> ec, stderr |-> err]
             /\ IF SendFails
                THEN StreamOuterCatch("send failed")
                ELSE /\ frames' = Send(frames, Frame("compilation_error",
                           [message |-> IF err = "" THEN "Compilation failed" ELSE err]))
                     /\ exc' = exc
                     /\ pc' = "finally"
       \/ /\ \E msg \in ErrMsgs : StreamOuterCatch(msg)
          /\ UNCHANGED compileResult
    /\ UNCHANGED <<kind, lang, nTests, i, req, wsOpen, sendThrows, offStream>>

\* for (let i = 0; i < testCases.length; i++) ... send({type: 'complete'})
StLoop ==
    /\ kind = "stream" /\ pc = "loop"
    /\ \/ /\ i < nTests
          /\ pc' = "prepare"
          /\ UNCHANGED <<frames, exc>>
       \/ /\ ~(i < nTests)
          /\ IF SendFails
             THEN StreamOuterCatch("send failed")
             ELSE /\ frames' = Send(frames, Frame("complete", [message |-> ""]))
                  /\ exc' = exc
                  /\ pc' = "finally"
    /\ UNCHANGED <<kind, compileResult, lang, nTests, i, log, req, wsOpen, sendThrows, offStream>>

\* Mutant of StreamTestCatch: no per-test try/catch, the error reaches the
\* outer catch block and the loop is abandoned.
StreamTestCatch_Abort(msg) ==
    /\ StreamOuterCatch(msg)
    /\ i' = i

\* The per-test catch block: send the errorResult; a send that throws here is
\* caught by the outer catch block, which abandons the loop.
StreamTestCatch(msg) ==
    IF SendFails
    THEN /\ StreamOuterCatch("send failed")
         /\ i' = i
    ELSE /\ frames' = Send(frames, Frame("result", StreamTestErrorOutcome(i, msg)))
         /\ exc' = exc
         /\ i' = i + 1
         /\ pc' = "loop"

\* The writeFile of the loop body.
StPrepare ==
    /\ kind = "stream" /\ pc = "prepare"
    /\ log' = SandboxCall(log, "writeFile",
                          IF IsCompiled(lang) THEN "stdin" ELSE "source", i)
    /\ \/ /\ pc' = "exec"
          /\ UNCHANGED <<i, frames, exc>>
       \/ \E msg \in ErrMsgs : StreamTestCatch(msg)
    /\ UNCHANGED <<kind, compileResult, lang, nTests, req, wsOpen, sendThrows, offStream>>

\* const result = await sandbox.exec(monitorCommand); send({type: 'result'})
StExec ==
    /\ kind = "stream" /\ pc = "exec"
    /\ log' = SandboxCall(log, "exec", "monitor", i)
    /\ \/ \E ec \in SessionExitCodes :
             IF SendFails
             THEN StreamTestCatch("send failed")
             ELSE /\ frames' = Send(frames, Frame("result", StreamMonitorOutcome(i, ec)))
                  /\ exc' = exc
                  /\ i' = i + 1
                  /\ pc' = "loop"
       \/ \E msg \in ErrMsgs : StreamTestCatch(msg)
    /\ UNCHANGED <<kind, compileResult, lang, nTests, req, wsOpen, sendThrows, offStream>>

\* finally { try { await sandbox.destroy() } catch (destroyError) {...} }
StFinally ==
    /\ kind = "stream" /\ pc = "finally"
    /\ log' = SandboxCall(log, "destroy", "", -1)
    /\ pc' = IF exc THEN "ws_catch" ELSE "done"
    /\ UNCHANGED <<kind, compileResult, lang, nTests, i, req, frames, wsOpen, sendThrows, exc, offStream>>

executeCodeStreaming ==
    \/ StStart \/ StWriteSource \/ StCompile \/ StLoop
    \/ StPrepare \/ StExec \/ StFinally

\* ----------------------------------- executeCode (one sandbox per test case)
\* What the polling monitor prints on its last line, as far as the worker reads
\* it: exit_code, time_exceeded, memory_exceeded.
PollJsonOutputs ==
    [exit_code : {0, 1}, time_exceeded : BOOLEAN, memory_exceeded : {FALSE}]
    \cup [exit_code : {124}, time_exceeded : {TRUE}, memory_exceeded : {FALSE}]
    \cup [exit_code : {137}, time_exceeded : BOOLEAN, memory_exceeded : {TRUE}]

\* The return value built from the parsed monitor data.
ExecuteCodeParsed(json) ==
    [exitCode |-> json.exit_code, timedOut |-> json.time_exceeded,
     memoryExceeded |-> json.memory_exceeded, stderr |-> "", error |-> NoError]

\* The fallback when JSON.parse of the last line throws: result.exitCode || 1.
ExecuteCodeFallback(ec) ==
    [exitCode |-> IF ec = 0 THEN 1 ELSE ec, timedOut |-> FALSE,
     memoryExceeded |-> FALSE, stderr |-> "", error |-> NoError]

\* The return value of the catch block.
ExecuteCodeError(msg) ==
    [exitCode |-> 1, timedOut |-> MsgIncludesTimeout(msg), memoryExceeded |-> FALSE,
     stderr |-> msg, error |-> msg]

\* The return value when the compile command fails.
ExecuteCodeCompileError(cr) ==
    [exitCode |-> cr.exitCode, timedOut |-> FALSE, memoryExceeded |-> FALSE,
     stderr |-> IF cr.stderr = "" THEN "Compilation failed" ELSE cr.stderr,
     error |-> "Compilation failed"]

\* One step of promise t: the call is issued; it either succeeds and the
\* promise moves on to `next`, or it throws and the catch block returns.
TaskCall(t, op, arg, next) ==
    LET l == SandboxCall(tasks[t].log, op, arg, t - 1) IN
    \/ tasks' = [tasks EXCEPT ![t].log = l, ![t].pc = next]
    \/ \E msg \in ErrMsgs :
          tasks' = [tasks EXCEPT ![t].log = l, ![t].pc = "finally",
                                 ![t].result = ExecuteCodeError(msg)]

\* await sandbox.exec("echo 'Hello, world!'")
EcStart(t) ==
    /\ tasks[t].pc = "start"
    /\ TaskCall(t, "exec", "hello", "writeSource")

\* await sandbox.writeFile(fileName, finalCode)
EcWriteSource(t) ==
    /\ tasks[t].pc = "writeSource"
    /\ TaskCall(t, "writeFile", "source",
                IF IsCompiled(lang) /\ HasCompileCommand(lang) THEN "compile" ELSE "stdin")

\* const compileResult = await sandbox.exec(languageConfig.compileCommand)
EcCompile(t) ==
    /\ tasks[t].pc = "compile"
    /\ \/ TaskCall(t, "exec", "compile", "stdin")
       \/ \E ec \in CompileFailCodes, err \in CompileStderrs :
             tasks' = [tasks EXCEPT
                 ![t].log = SandboxCall(tasks[t].log, "exec", "compile", t - 1),
                 ![t].pc = "finally",
                 ![t].result = ExecuteCodeCompileError([exitCode |-> ec, stderr |-> err])]

\* if (languageConfig.isCompiled && testCase.stdin) writeFile("/app/stdin.txt")
EcWriteStdin(t) ==
    /\ tasks[t].pc = "stdin"
    /\ \/ /\ IsCompiled(lang)
          /\ TaskCall(t, "writeFile", "stdin", "monitor")
       \/ tasks' = [tasks EXCEPT ![t].pc = "monitor"]

\* const result = await sandbox.exec(monitorCommand), and the parse of its output
EcMonitor(t) ==
    /\ tasks[t].pc = "monitor"
    /\ LET l == SandboxCall(tasks[t].log, "exec", "monitor", t - 1) IN
       \/ \E json \in PollJsonOutputs :
             tasks' = [tasks EXCEPT ![t].log = l, ![t].pc = "finally",
                                    ![t].result = ExecuteCodeParsed(json)]
       \/ \E ec \in {0, 1} :
             tasks' = [tasks EXCEPT ![t].log = l, ![t].pc = "finally",
                                    ![t].result = ExecuteCodeFallback(ec)]
       \/ \E msg \in ErrMsgs :
             tasks' = [tasks EXCEPT ![t].log = l, ![t].pc = "finally",
                                    ![t].result = ExecuteCodeError(msg)]

\* finally { try { await sandbox.destroy() } catch (destroyError) {...} }
EcFinally(t) ==
    /\ tasks[t].pc = "finally"
    /\ tasks' = [tasks EXCEPT ![t].log = SandboxCall(tasks[t].log, "destroy", "", t - 1),
                              ![t].pc = "done"]

executeCode(t) ==
    /\ kind = "batch" /\ pc = "promiseAll"
    /\ \/ /\ \/ EcStart(t) \/ EcWriteSource(t) \/ EcCompile(t)
             \/ EcWriteStdin(t) \/ EcMonitor(t)
          /\ order' = order
       \/ /\ EcFinally(t)
          /\ order' = Append(order, t)
    /\ UNCHANGED <<kind, lang, nTests, pc, response, offBatch>>

\* ------------------------------------------ handleCodeExecution (parallel)
\* Mutant of PromiseAll: the values are collected in the order the promises
\* settled (results.push in each promise's continuation).
PromiseAll_BySettlement(ts, ord) == [k \in 1..Len(ts) |-> ts[ord[k]].result]

\* Promise.all(executionPromises): the values in the order of the promises.
PromiseAll(ts, ord) == [k \in 1..Len(ts) |-> ts[k].result]

\* return { testCaseIndex: index, ...result }
WithIndex(idx, r) ==
    [testCaseIndex |-> idx, exitCode |-> r.exitCode, timedOut |-> r.timedOut,
     memoryExceeded |-> r.memoryExceeded, stderr |-> r.stderr, error |-> r.error]

\* const results = await Promise.all(executionPromises)
BatchRespond ==
    /\ kind = "batch" /\ pc = "promiseAll"
    /\ \A t \in 1..nTests : tasks[t].pc = "done"
    /\ response' = PromiseAll([k \in 1..nTests |->
                        [tasks[k] EXCEPT !.result = WithIndex(k - 1, tasks[k].result)]],
                        order)
    /\ pc' = "done"
    /\ UNCHANGED <<kind, lang, nTests, tasks, order, offBatch>>

handleCodeExecutionParallel ==
    \/ \E t \in 1..nTests : executeCode(t)
    \/ BatchRespond

\* ----------------------------------------------------------- SandboxRuntime
\* The ExecutionResult executeTimed builds from the monitor's exit code.
ExecuteTimedResult(idx, ec) ==
    [testCaseIndex |-> idx, exitCode |-> ec, timedOut |-> (ec = 143),
     memoryExceeded |-> (ec = 134), stderr |-> "", error |-> NoError]

\* A sandbox call of run number i throws: the promise of run rejects, and the
\* caller goes on to its next run call.
RtReject ==
    /\ rejected' = rejected \cup {i}
    /\ i' = i + 1
    /\ pc' = "run"

\* async run(input): entered once per test case
RtRun ==
    /\ kind = "runtime" /\ pc = "run"
    /\ i < nTests
    /\ pc' = "writeStdin"
    /\ UNCHANGED <<kind, lang, nTests, i, results, log, rtVars, offRuntime>>

\* await this.writeStdin(input.stdin)
RtWriteStdin ==
    /\ kind = "runtime" /\ pc = "writeStdin"
    /\ log' = SandboxCall(log, "writeFile", "stdin", i)
    /\ \/ /\ pc' = "writeCode"
          /\ UNCHANGED <<i, rejected>>
       \/ RtReject
    /\ UNCHANGED <<kind, lang, nTests, results, compiled, offRuntime>>

\* await this.writeCode(await this.injectStdin(input.stdin))
RtWriteCode ==
    /\ kind = "runtime" /\ pc = "writeCode"
    /\ log' = SandboxCall(log, "writeFile", "source", i)
    /\ \/ /\ pc' = "compileIfNeeded"
          /\ UNCHANGED <<i, rejected>>
       \/ RtReject
    /\ UNCHANGED <<kind, lang, nTests, results, compiled, offRuntime>>

\* async compileIfNeeded(): the early return and the writeCode(this.code)
compileIfNeeded ==
    /\ kind = "runtime" /\ pc = "compileIfNeeded"
    /\ \/ /\ ~IsCompiled(lang)
          /\ pc' = "executeTimed"
          /\ UNCHANGED <<i, rejected, log>>
       \/ /\ IsCompiled(lang)
          /\ log' = SandboxCall(log, "writeFile", "source", i)
          /\ \/ /\ pc' = "compileExec"
                /\ UNCHANGED <<i, rejected>>
             \/ RtReject
    /\ UNCHANGED <<kind, lang, nTests, results, compiled, offRuntime>>

\* const compileResult = await this.sandbox.exec(compileCommand);
\* this.compiled = compileResult.exitCode === 0   (run ignores the return value)
RtCompileExec ==
    /\ kind = "runtime" /\ pc = "compileExec"
    /\ log' = SandboxCall(log, "exec", "compile", i)
    /\ \/ \E ec \in {0} \cup CompileFailCodes :
             /\ compiled' = (ec = 0)
             /\ pc' = "executeTimed"
             /\ UNCHANGED <<i, rejected>>
       \/ /\ RtReject
          /\ UNCHANGED compiled
    /\ UNCHANGED <<kind, lang, nTests, results, offRuntime>>

\* return await this.executeTimed(input.timeLimitMs, input.memoryLimit)
executeTimed ==
    /\ kind = "runtime" /\ pc = "executeTimed"
    /\ log' = SandboxCall(log, "exec", "monitor", i)
    /\ \/ \E ec \in SessionExitCodes :
             /\ results' = Append(results, ExecuteTimedResult(i, ec))
             /\ i' = i + 1
             /\ pc' = "run"
             /\ UNCHANGED rejected
       \/ /\ RtReject
          /\ UNCHANGED results
    /\ UNCHANGED <<kind, lang, nTests, compiled, offRuntime>>

SandboxRuntimeRun ==
    \/ RtRun \/ RtWriteStdin \/ RtWriteCode \/ compileIfNeeded
    \/ RtCompileExec \/ executeTimed

\* ------------------------------------------------- the monitor's stdout text
\* A text is a sequence of characters. The characters a program may print
\* here: a letter, a digit and the newline.
NL == "\n"
DigitChars == <<"0", "1", "2", "3", "4", "5", "6", "7", "8", "9">>
Whitespace == {NL, " "}

IsDigit(ch) == \E d \in 1..10 : DigitChars[d] = ch
DigitOf(ch) == (CHOOSE d \in 1..10 : DigitChars[d] = ch) - 1

\* The decimal text of a natural number, as echo prints a shell variable.
RECURSIVE ToText(_)
ToText(n) ==
    IF n < 10 THEN <<DigitChars[n + 1]>>
    ELSE ToText(n \div 10) \o <<DigitChars[(n % 10) + 1]>>

\* String.prototype.trim
RECURSIVE TrimStart(_)
TrimStart(t) ==
    IF t # <<>> /\ Head(t) \in Whitespace THEN TrimStart(Tail(t)) ELSE t

RECURSIVE TrimEnd(_)
TrimEnd(t) ==
    IF t # <<>> /\ t[Len(t)] \in Whitespace THEN TrimEnd(SubSeq(t, 1, Len(t) - 1)) ELSE t

Trim(t) == TrimEnd(TrimStart(t))

\* String.prototype.split("\n"): at least one element, "" for the empty text.
RECURSIVE SplitLines(_)
SplitLines(t) ==
    IF \A k \in 1..Len(t) : t[k] # NL THEN <<t>>
    ELSE LET k == CHOOSE j \in 1..Len(t) : t[j] = NL /\ \A h \in 1..(j - 1) : t[h] # NL
         IN  <<SubSeq(t, 1, k - 1)>> \o SplitLines(SubSeq(t, k + 1, Len(t)))

\* Array.prototype.join("\n")
RECURSIVE JoinLines(_)
JoinLines(ls) ==
    IF ls = <<>> THEN <<>>
    ELSE IF Len(ls) = 1 THEN ls[1]
    ELSE ls[1] \o <<NL>> \o JoinLines(Tail(ls))

\* Array.prototype.pop: the popped element (undefined, which `||` treats as
\* the empty text does, when the array is empty) and the array left.
PopValue(ls) == IF ls = <<>> THEN <<>> ELSE ls[Len(ls)]
PopRest(ls) == IF ls = <<>> THEN <<>> ELSE SubSeq(ls, 1, Len(ls) - 1)

\* parseInt of a text without digits at its start.
NaN == -1

RECURSIVE DigitsValue(_, _)
DigitsValue(t, acc) ==
    IF t # <<>> /\ IsDigit(Head(t)) THEN DigitsValue(Tail(t), 10 * acc + DigitOf(Head(t)))
    ELSE acc

\* parseInt(x || "0"): leading whitespace is skipped, the digits at the start
\* are read, anything after them is ignored.
ParseIntOrZero(x) ==
    LET t == TrimStart(IF x = <<>> THEN <<"0">> ELSE x)
    IN  IF t # <<>> /\ IsDigit(Head(t)) THEN DigitsValue(t, 0) ELSE NaN

\* The lines 139-149 of executeTimed (and the same lines of the executors of
\* the worker): stdout, memoryKB and timeMS taken from result.stdout.
ParseMonitorStdout(text) ==
    LET outputLines == SplitLines(Trim(text))
        memoryKB == PopValue(outputLines)
        rest == PopRest(outputLines)
        timeMS == PopValue(rest)
    IN  [stdout |-> JoinLines(PopRest(rest)),
         memoryKB |-> ParseIntOrZero(memoryKB),
         timeMS |-> ParseIntOrZero(timeMS)]

\* cat "$STDOUT_FILE"; echo "${TIME_MS}"; echo "${MEM_KB}"
MonitorStdout(po, tms, mkb) == po \o tms \o <<NL>> \o mkb \o <<NL>>

\* ------------------------------------------------------------ the monitors
\* Bounds of the monitored runs.
MaxLimitMs == 3
MaxMemKB == 3
MaxDesc == 1

MaxTime == MaxLimitMs + 1
TimeLimits == (MaxLimitMs - 1)..MaxLimitMs
MemoryLimits == 1..(MaxMemKB - 1)
ExitCodes == 0..255
MaxOutLines == 2
OutLines == {<<"a">>, <<"7">>}

\* What a program may have printed: up to MaxOutLines lines, the last one
\* with or without its newline.
ProgramOutputs ==
    {JoinLines(ls) \o (IF nl THEN <<NL>> ELSE <<>>) :
        ls \in UNION {[1..n -> OutLines] : n \in 1..MaxOutLines}, nl \in BOOLEAN}
    \cup {<<>>}
Pids == 0..MaxDesc

\* 128 + signal number: the status of a command that a signal ended.
SigStatus(sig) == IF sig = "TERM" THEN 143 ELSE 137

\* The timeout-based monitor.sh has started the command under `timeout`.
InitTimeoutMonitor ==
    /\ kind = "tmon" /\ pc = "t_run"
    /\ consumer \in {"executeTimed", "executeCodeStreaming", "executeCodeSequential"}
    /\ tLimit \in TimeLimits /\ mLimit \in MemoryLimits /\ now = 0
    /\ alive = {0} /\ parent = <<>> /\ ignoresTerm \in BOOLEAN /\ signals = <<>>
    /\ rootExit = Running /\ mon = MonitorShellInit /\ out = NoResult
    /\ progOut \in ProgramOutputs /\ actual = NoMeasure /\ parsed = NoParse
    /\ sub = NoSub /\ files = NoFiles /\ sampled = <<>>

\* The polling monitor.sh has started the command in the background ($PID).
InitPollingMonitor ==
    /\ kind = "pmon" /\ pc = "p_loop"
    /\ consumer = "executeCode"
    /\ tLimit \in TimeLimits /\ mLimit \in MemoryLimits /\ now = 0
    /\ alive = Pids /\ parent \in {f \in [1..MaxDesc -> Pids] : \A q \in 1..MaxDesc : f[q] < q}
    /\ ignoresTerm = FALSE /\ signals = <<>>
    /\ rootExit = Running /\ mon = MonitorShellInit /\ out = NoResult
    /\ progOut = <<>> /\ actual = NoMeasure /\ parsed = NoParse
    /\ sub = NoSub /\ files = NoFiles /\ sampled = <<>>

\* The session variables of a behaviour that follows a monitor.
NoSession ==
    /\ lang = "cpp" /\ nTests = 1 /\ i = 0 /\ results = <<>> /\ retval = <<>>
    /\ log = <<>> /\ compileResult = NoCompile
    /\ req = GoodRequest /\ frames = <<>> /\ wsOpen = TRUE /\ sendThrows = FALSE
    /\ exc = FALSE
    /\ tasks = <<>> /\ order = <<>> /\ response = <<>>
    /\ compiled = FALSE /\ rejected = {}

InitMonitor == NoSession /\ NoGeneration /\ NoOverlap /\ NoRateLimiter /\ NoHttp /\ (InitTimeoutMonitor \/ InitPollingMonitor)

\* The outcome the consuming worker function builds from the exit status of
\* the timeout-based monitor.
OutcomeOfStatus(c, st) ==
    IF c = "executeTimed" THEN ExecuteTimedResult(0, st)
    ELSE IF c = "executeCodeStreaming" THEN StreamMonitorOutcome(0, st)
    ELSE SeqMonitorOutcome(0, st)

\* The exit codes tried for a program that printed po: all of them for the
\* silent program, the ones the worker tells apart for the others.
ProgramExitCodes(po) == IF po = <<>> THEN ExitCodes ELSE SessionExitCodes

\* The supervised command ends by itself with exit code c; with
\* --preserve-status that is the status of `timeout`.
TmCommandExits ==
    /\ kind = "tmon" /\ pc \in {"t_run", "t_grace"} /\ 0 \in alive
    /\ \E c \in ProgramExitCodes(progOut) :
          rootExit' = [how |-> "exit", code |-> c, at |-> now]
    /\ \E ms \in (IF pc = "t_run" THEN (tLimit - 1)..tLimit ELSE {tLimit + 1}),
          kb \in 1..MaxMemKB :
          /\ actual' = [ms |-> ms, kb |-> kb]
          /\ mon' = [mon EXCEPT !.STATUS = rootExit'.code,
                                 !.TIME_MS = ToText(ms), !.MEM_KB = ToText(kb)]
    /\ alive' = {}
    /\ pc' = "t_emit"
    /\ UNCHANGED <<kind, consumer, tLimit, mLimit, now, parent, ignoresTerm, signals, out, offMonitor, extVars, progOut, parsed>>

\* TIME_LIMIT has elapsed: timeout sends SIGTERM.
TmExpire ==
    /\ kind = "tmon" /\ pc = "t_run" /\ 0 \in alive
    /\ signals' = Append(signals, "TERM")
    /\ IF ignoresTerm
       THEN /\ pc' = "t_grace"
            /\ UNCHANGED <<alive, rootExit, mon, actual>>
       ELSE /\ alive' = {}
            /\ rootExit' = [how |-> "TERM", code |-> -1, at |-> now]
            /\ mon' = [mon EXCEPT !.STATUS = SigStatus("TERM")]
            /\ \E kb \in 1..MaxMemKB : actual' = [ms |-> tLimit, kb |-> kb]
            /\ pc' = "t_emit"
    /\ UNCHANGED <<kind, consumer, tLimit, mLimit, now, parent, ignoresTerm, out, offMonitor, extVars, progOut, parsed>>

\* --kill-after=1: the command is still running one second after the
\* SIGTERM, timeout sends SIGKILL.
TmKillAfter ==
    /\ kind = "tmon" /\ pc = "t_grace" /\ 0 \in alive
    /\ signals' = Append(signals, "KILL")
    /\ alive' = {}
    /\ rootExit' = [how |-> "KILL", code |-> -1, at |-> now]
    /\ mon' = [mon EXCEPT !.STATUS = SigStatus("KILL")]
    /\ \E kb \in 1..MaxMemKB : actual' = [ms |-> tLimit + 1, kb |-> kb]
    /\ pc' = "t_emit"
    /\ UNCHANGED <<kind, consumer, tLimit, mLimit, now, parent, ignoresTerm, out, offMonitor, extVars, progOut, parsed>>

\* The script prints the program's stdout and its two trailer lines and
\* exits with "$STATUS"; the worker maps result.exitCode to the outcome and
\* takes stdout, timeMS and memoryKB from result.stdout.
TmEmit ==
    /\ kind = "tmon" /\ pc = "t_emit"
    /\ out' = OutcomeOfStatus(consumer, mon.STATUS)
    /\ parsed' = ParseMonitorStdout(MonitorStdout(progOut, mon.TIME_MS, mon.MEM_KB))
    /\ pc' = "m_done"
    /\ UNCHANGED <<kind, consumer, tLimit, mLimit, now, alive, parent, ignoresTerm, signals, rootExit, mon, offMonitor, extVars, progOut, actual>>

TimeoutMonitor == TmCommandExits \/ TmExpire \/ TmKillAfter \/ TmEmit

\* The live processes whose parent is p.
Children(al, par, p) == {q \in al \ {0} : par[q] = p}

\* Processes whose parent died are adopted by init (-1 here).
Reparent(par, al) == [q \in DOMAIN par |-> IF par[q] \in al THEN par[q] ELSE -1]

Max(a, b) == IF a > b THEN a ELSE b

SetMax(S, d) == IF S = {} THEN d ELSE CHOOSE x \in S : \A y \in S : y <= x

\* kill -9 $PID [$CHILD_PID]; pkill -9 -P $PID. The pkill finds the children
\* of $PID only while they have not been handed over to init.
PollKill(extra) ==
    /\ \E K \in {Children(alive, parent, 0), {}} :
          /\ (0 \notin alive) => K = {}
          /\ alive' = alive \ ({0} \cup extra \cup K)
          /\ parent' = Reparent(parent, alive \ ({0} \cup extra \cup K))
    /\ signals' = Append(signals, "KILL")
    /\ rootExit' = IF 0 \in alive THEN [how |-> "KILL", code |-> -1, at |-> now]
                   ELSE rootExit

\* Time passes.
Tick ==
    /\ kind \in {"pmon", "bmon"} /\ pc # "m_done" /\ now < MaxTime
    /\ now' = now + 1
    /\ UNCHANGED <<kind, pc, consumer, tLimit, mLimit, alive, parent, ignoresTerm, signals, rootExit, mon, out, offMonitor, extVars, ioVars>>

\* The exit codes tried for the program under a polling monitor.
PollExitCodes == {0, 1}

\* A process of the program ends by itself; $PID with an exit code.
ProcExit ==
    /\ kind \in {"pmon", "bmon"} /\ pc # "m_done"
    /\ \E q \in alive :
          /\ alive' = alive \ {q}
          /\ parent' = Reparent(parent, alive \ {q})
          /\ IF q = 0
             THEN \E c \in PollExitCodes :
                     rootExit' = [how |-> "exit", code |-> c, at |-> now]
             ELSE rootExit' = rootExit
    /\ UNCHANGED <<kind, pc, consumer, tLimit, mLimit, now, ignoresTerm, signals, mon, out, offMonitor, extVars, ioVars>>

\* while kill -0 $PID
PollLoopTest ==
    /\ kind = "pmon" /\ pc = "p_loop"
    /\ pc' = IF 0 \in alive THEN "p_time" ELSE "p_final"
    /\ UNCHANGED <<kind, consumer, tLimit, mLimit, now, alive, parent, ignoresTerm, signals, rootExit, mon, out, offMonitor, ioVars, extVars>>

\* Mutant of PollTimeCheck: the elapsed time is computed but not compared
\* with the limit.
PollTimeCheck_NoLimit ==
    /\ kind = "pmon" /\ pc = "p_time"
    /\ mon' = [mon EXCEPT !.ELAPSED_MS = now]
    /\ pc' = "p_memory"
    /\ UNCHANGED <<alive, parent, signals, rootExit>>
    /\ UNCHANGED <<kind, consumer, tLimit, mLimit, now, ignoresTerm, out, offMonitor, extVars, ioVars>>

\* ELAPSED_MS=$((CURRENT_TIME - START_TIME)); the immediate time check
PollTimeCheck ==
    /\ kind = "pmon" /\ pc = "p_time"
    /\ IF now >= tLimit
       THEN /\ mon' = [mon EXCEPT !.ELAPSED_MS = now,
                                  !.TIME_EXCEEDED = TRUE, !.EXIT_CODE = 124]
            /\ PollKill({})
            /\ pc' = "p_final"
       ELSE /\ mon' = [mon EXCEPT !.ELAPSED_MS = now]
            /\ pc' = "p_memory"
            /\ UNCHANGED <<alive, parent, signals, rootExit>>
    /\ UNCHANGED <<kind, consumer, tLimit, mLimit, now, ignoresTerm, out, offMonitor, extVars, ioVars>>

\* The memory check of $PID with -ge in place of -gt.
PollMemoryCheck_AtLimit ==
    /\ kind = "pmon" /\ pc = "p_memory"
    /\ IF 0 \in alive
       THEN \E CURRENT_MEMORY \in 0..MaxMemKB :
               /\ sampled' = (0 :> CURRENT_MEMORY)
               /\ IF CURRENT_MEMORY >= mLimit
                  THEN /\ mon' = [mon EXCEPT !.MAX_MEMORY = Max(@, CURRENT_MEMORY),
                                             !.MEMORY_EXCEEDED = TRUE, !.EXIT_CODE = 137]
                       /\ PollKill({})
                       /\ pc' = "p_final"
                  ELSE /\ mon' = [mon EXCEPT !.MAX_MEMORY = Max(@, CURRENT_MEMORY)]
                       /\ pc' = "p_children"
                       /\ UNCHANGED <<alive, parent, signals, rootExit>>
       ELSE /\ pc' = "p_children"
            /\ UNCHANGED <<mon, alive, parent, signals, rootExit, sampled>>
    /\ UNCHANGED <<kind, consumer, tLimit, mLimit, now, ignoresTerm, out, offMonitor, sub, files, ioVars>>

\* The memory check of $PID: skipped when /proc/$PID/status is gone.
PollMemoryCheck ==
    /\ kind = "pmon" /\ pc = "p_memory"
    /\ IF 0 \in alive
       THEN \E CURRENT_MEMORY \in 0..MaxMemKB :
               /\ sampled' = (0 :> CURRENT_MEMORY)
               /\ IF CURRENT_MEMORY > mLimit
                  THEN /\ mon' = [mon EXCEPT !.MAX_MEMORY = Max(@, CURRENT_MEMORY),
                                             !.MEMORY_EXCEEDED = TRUE, !.EXIT_CODE = 137]
                       /\ PollKill({})
                       /\ pc' = "p_final"
                  ELSE /\ mon' = [mon EXCEPT !.MAX_MEMORY = Max(@, CURRENT_MEMORY)]
                       /\ pc' = "p_children"
                       /\ UNCHANGED <<alive, parent, signals, rootExit>>
       ELSE /\ pc' = "p_children"
            /\ UNCHANGED <<mon, alive, parent, signals, rootExit, sampled>>
    /\ UNCHANGED <<kind, consumer, tLimit, mLimit, now, ignoresTerm, out, offMonitor, sub, files, ioVars>>

\* for CHILD_PID in $(pgrep -P $PID): the children are read in pid order up to
\* the first one above the limit.
PollChildrenCheck ==
    /\ kind = "pmon" /\ pc = "p_children"
    /\ LET kids == Children(alive, parent, 0) IN
       \E CHILD_MEMORY \in [kids -> 0..MaxMemKB] :
          LET over == {q \in kids : CHILD_MEMORY[q] > mLimit}
              hit == SetMax({-q : q \in over}, 1)
              read == IF over = {} THEN kids ELSE {q \in kids : q <= -hit}
              top == SetMax({CHILD_MEMORY[q] : q \in read}, 0)
          IN  /\ sampled' = [q \in read |-> CHILD_MEMORY[q]] @@ sampled
              /\ IF over = {}
                 THEN /\ mon' = [mon EXCEPT !.MAX_MEMORY = Max(@, top)]
                      /\ pc' = "p_sleep"
                      /\ UNCHANGED <<alive, parent, signals, rootExit>>
                 ELSE /\ mon' = [mon EXCEPT !.MAX_MEMORY = Max(@, top),
                                            !.MEMORY_EXCEEDED = TRUE, !.EXIT_CODE = 137]
                      /\ PollKill({-hit})
                      /\ pc' = "p_final"
    /\ UNCHANGED <<kind, consumer, tLimit, mLimit, now, ignoresTerm, out, offMonitor, sub, files, ioVars>>

\* sleep 0.02
PollSleep ==
    /\ kind = "pmon" /\ pc = "p_sleep"
    /\ now' = IF now < MaxTime THEN now + 1 ELSE now
    /\ sampled' = <<>>
    /\ pc' = "p_loop"
    /\ UNCHANGED <<kind, consumer, tLimit, mLimit, alive, parent, ignoresTerm, signals, rootExit, mon, out, offMonitor, sub, files, ioVars>>

\* After the loop: wait $PID when no flag is set, then the final
\* EXECUTION_TIME and its limit.
PollFinal ==
    /\ kind = "pmon" /\ pc = "p_final"
    /\ LET waited == ~mon.TIME_EXCEEDED /\ ~mon.MEMORY_EXCEEDED
           code == IF waited THEN rootExit.code ELSE mon.EXIT_CODE
       IN  mon' = [mon EXCEPT !.EXIT_CODE = code,
                              !.TIME_EXCEEDED = @ \/ (now > tLimit),
                              !.EXECUTION_TIME = IF now > tLimit THEN tLimit ELSE now]
    /\ actual' = [ms |-> now, kb |-> mon.MAX_MEMORY]
    /\ sampled' = <<>>
    /\ pc' = "p_emit"
    /\ UNCHANGED <<kind, consumer, tLimit, mLimit, now, alive, parent, ignoresTerm, signals, rootExit, out, offMonitor, sub, files, progOut, parsed>>

\* The JSON line the script prints.
PollJson(m) ==
    [exit_code |-> m.EXIT_CODE, time_exceeded |-> m.TIME_EXCEEDED,
     memory_exceeded |-> m.MEMORY_EXCEEDED,
     max_memory_kb |-> m.MAX_MEMORY, execution_time_ms |-> m.EXECUTION_TIME]

\* maxMemoryUsed: monitorData.max_memory_kb || 0 and
\* executionTime: monitorData.execution_time_ms || 0 of executeCode
ExecuteCodeMeasures(json) ==
    [stdout |-> <<>>, timeMS |-> json.execution_time_ms,
     memoryKB |-> json.max_memory_kb]

\* printf of the JSON line, which executeCode parses.
PollEmit ==
    /\ kind = "pmon" /\ pc = "p_emit"
    /\ out' = ExecuteCodeParsed(PollJson(mon))
    /\ parsed' = ExecuteCodeMeasures(PollJson(mon))
    /\ pc' = "m_done"
    /\ UNCHANGED <<kind, consumer, tLimit, mLimit, now, alive, parent, ignoresTerm, signals, rootExit, mon, offMonitor, extVars, progOut, actual>>

PollingMonitor ==
    \/ Tick \/ ProcExit
    \/ PollLoopTest \/ PollTimeCheck \/ PollMemoryCheck \/ PollChildrenCheck
    \/ PollSleep \/ PollFinal \/ PollEmit

\* ------------------------------------- monitor.sh, background-monitor variant
\* The script has started the command ($PID) and the monitoring subshell and
\* waits for $PID.
InitBackgroundMonitor ==
    /\ kind = "bmon" /\ pc = "b_wait"
    /\ consumer = "executeCode"
    /\ tLimit \in TimeLimits /\ mLimit \in MemoryLimits /\ now = 0
    /\ alive = {0} /\ parent = <<>> /\ ignoresTerm = FALSE /\ signals = <<>>
    /\ rootExit = Running /\ mon = MonitorShellInit /\ out = NoResult
    /\ progOut = <<>> /\ actual = NoMeasure /\ parsed = NoParse
    /\ sub = [pc |-> "s_loop", max_memory |-> 0, elapsed_ms |-> 0]
    /\ files = NoFiles /\ sampled = <<>>

InitBackground == NoSession /\ NoGeneration /\ NoOverlap /\ NoRateLimiter /\ NoHttp /\ InitBackgroundMonitor


FileValue(n) == [state |-> "value", value |-> n]
LimitExceeded == [state |-> "exceeded", value |-> 0]

\* echo ... > "$MEMORY_FILE" or "$TIME_FILE" in the subshell: once the script
\* has ended, its EXIT trap has removed $TEMP_DIR and the redirection fails.
BgWrite(f, name, content) ==
    IF pc = "m_done" THEN f ELSE [f EXCEPT ![name] = content]

\* kill -9 $PID of the subshell
BgKill ==
    /\ alive' = alive \ {0}
    /\ signals' = Append(signals, "KILL")
    /\ rootExit' = IF 0 \in alive THEN [how |-> "KILL", code |-> -1, at |-> now]
                   ELSE rootExit

\* while kill -0 $PID (and the same test repeated at the top of the body)
BgLoopTest ==
    /\ kind = "bmon" /\ sub.pc = "s_loop"
    /\ sub' = [sub EXCEPT !.pc = IF 0 \in alive THEN "s_memory" ELSE "s_record"]
    /\ UNCHANGED <<kind, pc, consumer, tLimit, mLimit, now, alive, parent, ignoresTerm, signals, rootExit, mon, out, offMonitor, ioVars, files, sampled>>

\* The memory check: skipped when /proc/$PID/status is gone.
BgMemoryCheck ==
    /\ kind = "bmon" /\ sub.pc = "s_memory"
    /\ IF 0 \in alive
       THEN \E current_memory \in 0..MaxMemKB :
               /\ sampled' = (0 :> current_memory)
               /\ IF current_memory > mLimit
                  THEN /\ sub' = [sub EXCEPT !.max_memory = Max(@, current_memory),
                                             !.pc = "s_exit"]
                       /\ files' = BgWrite(files, "memory", LimitExceeded)
                       /\ BgKill
                  ELSE /\ sub' = [sub EXCEPT !.max_memory = Max(@, current_memory),
                                             !.pc = "s_time"]
                       /\ UNCHANGED <<files, alive, signals, rootExit>>
       ELSE /\ sub' = [sub EXCEPT !.pc = "s_time"]
            /\ UNCHANGED <<files, alive, signals, rootExit, sampled>>
    /\ UNCHANGED <<kind, pc, consumer, tLimit, mLimit, now, parent, ignoresTerm, mon, out, offMonitor, ioVars>>

\* The time check of the subshell.
BgTimeCheck ==
    /\ kind = "bmon" /\ sub.pc = "s_time"
    /\ IF now > tLimit
       THEN /\ sub' = [sub EXCEPT !.elapsed_ms = now, !.pc = "s_exit"]
            /\ files' = BgWrite(files, "time", LimitExceeded)
            /\ BgKill
       ELSE /\ sub' = [sub EXCEPT !.elapsed_ms = now, !.pc = "s_sleep"]
            /\ UNCHANGED <<files, alive, signals, rootExit>>
    /\ UNCHANGED <<kind, pc, consumer, tLimit, mLimit, now, parent, ignoresTerm, mon, out, offMonitor, ioVars, sampled>>

\* sleep 0.005
BgSleep ==
    /\ kind = "bmon" /\ sub.pc = "s_sleep"
    /\ now' = IF now < MaxTime THEN now + 1 ELSE now
    /\ sampled' = <<>>
    /\ sub' = [sub EXCEPT !.pc = "s_loop"]
    /\ UNCHANGED <<kind, pc, consumer, tLimit, mLimit, alive, parent, ignoresTerm, signals, rootExit, mon, out, offMonitor, ioVars, files>>

\* After the loop: echo "$max_memory" > "$MEMORY_FILE"
BgRecordMemory ==
    /\ kind = "bmon" /\ sub.pc = "s_record"
    /\ files' = BgWrite(files, "memory", FileValue(sub.max_memory))
    /\ sub' = [sub EXCEPT !.pc = "s_record_time"]
    /\ UNCHANGED <<kind, pc, consumer, tLimit, mLimit, now, alive, parent, ignoresTerm, signals, rootExit, mon, out, offMonitor, ioVars, sampled>>

\* echo "$elapsed_ms" > "$TIME_FILE"
BgRecordTime ==
    /\ kind = "bmon" /\ sub.pc = "s_record_time"
    /\ files' = BgWrite(files, "time", FileValue(now))
    /\ sub' = [sub EXCEPT !.elapsed_ms = now, !.pc = "s_exit"]
    /\ UNCHANGED <<kind, pc, consumer, tLimit, mLimit, now, alive, parent, ignoresTerm, signals, rootExit, mon, out, offMonitor, ioVars, sampled>>

\* wait $PID; EXIT_CODE=$?
BgWait ==
    /\ kind = "bmon" /\ pc = "b_wait" /\ 0 \notin alive
    /\ mon' = [mon EXCEPT !.EXIT_CODE = IF rootExit.how = "exit" THEN rootExit.code
                                        ELSE SigStatus(rootExit.how)]
    /\ actual' = [ms |-> now, kb |-> sub.max_memory]
    /\ pc' = "b_read"
    /\ UNCHANGED <<kind, consumer, tLimit, mLimit, now, alive, parent, ignoresTerm, signals, rootExit, out, offMonitor, progOut, parsed, extVars>>

\* The JSON line of the script when both files hold a number or are missing.
BgJson(m, f) ==
    [exit_code |-> m.EXIT_CODE, time_exceeded |-> FALSE, memory_exceeded |-> FALSE,
     max_memory_kb |-> f.memory.value, execution_time_ms |-> f.time.value]

\* The script reads the two files (0 for a missing one) and echoes its JSON
\* line; it ends with status 0. executeCode parses the line, or takes its
\* fallback when a file held the text of a limit marker and the line is not
\* JSON. The line has no time_exceeded and no memory_exceeded member.
BgEmit ==
    /\ kind = "bmon" /\ pc = "b_read"
    /\ IF files.memory = LimitExceeded \/ files.time = LimitExceeded
       THEN /\ out' = ExecuteCodeFallback(0)
            /\ parsed' = [stdout |-> <<>>, timeMS |-> 0, memoryKB |-> 0]
       ELSE /\ out' = ExecuteCodeParsed(BgJson(mon, files))
            /\ parsed' = ExecuteCodeMeasures(BgJson(mon, files))
    /\ pc' = "m_done"
    /\ UNCHANGED <<kind, consumer, tLimit, mLimit, now, alive, parent, ignoresTerm, signals, rootExit, mon, offMonitor, progOut, actual, extVars>>

BackgroundMonitor ==
    \/ BgLoopTest \/ BgMemoryCheck \/ BgTimeCheck \/ BgSleep
    \/ BgRecordMemory \/ BgRecordTime \/ BgWait \/ BgEmit

\* --------------------------------------------------- generated source text
\* The characters of a modelled stdin: a letter, the space, the double quote,
\* the backslash, the newline, and one character above U+00FF.
WideChar == "U+03BB"
StdinChars == {"a", " ", "\"", "\\", NL, WideChar}

\* Longest modelled stdin.
MaxStdinLen == 2

Stdins == UNION {[1..n -> StdinChars] : n \in 0..MaxStdinLen}

\* The code unit of a modelled character.
CharCode(ch) ==
    CASE ch = "a" -> 97
      [] ch = " " -> 32
      [] ch = "\"" -> 34
      [] ch = "\\" -> 92
      [] ch = NL -> 10
      [] ch = WideChar -> 955

Base64Alphabet ==
    <<"A", "B", "C", "D", "E", "F", "G", "H", "I", "J", "K", "L", "M",
      "N", "O", "P", "Q", "R", "S", "T", "U", "V", "W", "X", "Y", "Z",
      "a", "b", "c", "d", "e", "f", "g", "h", "i", "j", "k", "l", "m",
      "n", "o", "p", "q", "r", "s", "t", "u", "v", "w", "x", "y", "z",
      "0", "1", "2", "3", "4", "5", "6", "7", "8", "9", "+", "/">>

\* btoa throws InvalidCharacterError when a code unit is above 0xFF.
BtoaThrows(t) == \E k \in 1..Len(t) : CharCode(t[k]) > 255

\* The four characters btoa produces for a group of one to three bytes.
Base64Group(b) ==
    LET n == Len(b)
        v == b[1] * 65536 + (IF n >= 2 THEN b[2] * 256 ELSE 0) + (IF n = 3 THEN b[3] ELSE 0)
    IN  << Base64Alphabet[(v \div 262144) + 1],
           Base64Alphabet[((v \div 4096) % 64) + 1],
           IF n >= 2 THEN Base64Alphabet[((v \div 64) % 64) + 1] ELSE "=",
           IF n = 3 THEN Base64Alphabet[(v % 64) + 1] ELSE "=" >>

\* btoa(stdin), for a text it does not throw on.
RECURSIVE Btoa(_)
Btoa(t) ==
    IF t = <<>> THEN <<>>
    ELSE LET n == IF Len(t) >= 3 THEN 3 ELSE Len(t)
         IN  Base64Group([k \in 1..n |-> CharCode(t[k])]) \o Btoa(SubSeq(t, n + 1, Len(t)))

\* testCase.stdin.replace(/"/g, '\\"')
RECURSIVE EscapeQuotes(_)
EscapeQuotes(t) ==
    IF t = <<>> THEN <<>>
    ELSE (IF Head(t) = "\"" THEN <<"\\", "\"">> ELSE <<Head(t)>>) \o EscapeQuotes(Tail(t))

\* ------------------------------------------- the source written for a test
\* The text written to the source file, as the parts it is put together from:
\* "setup" is the preamble built from stdin, "code" the code as submitted,
\* and the opening and closing lines of a wrapper around it.
CodeOnly == <<"code">>

\* The languages of the LANGUAGE_CONFIG of execution-sandbox.ts.
SandboxLanguages == {"javascript", "cpp", "c", "python"}

\* Mutant of SetupCode: the cpp entry returns a preamble as well.
SetupCode_Cpp(l) == IF l \in {"javascript", "python", "cpp"} THEN <<"setup">> ELSE <<>>

\* languageConfig.setupStdin(testCase.stdin) of the per-test executeCode: the
\* preamble for javascript and python, "" for cpp, c, rust and java.
SetupCode(l) == IF l \in {"javascript", "python"} THEN <<"setup">> ELSE <<>>

\* setupStdin(code, stdin) of execution-sandbox.ts: the preamble, then the code
\* (for javascript inside an immediately invoked function).
SetupStdinText(l) ==
    IF l = "javascript" THEN <<"setup", "(() => {", "code", "})();">>
    ELSE <<"setup", "code">>

SetupStdinGenerators == {"setupStdin.javascript", "setupStdin.python"}

InitGeneration ==
    /\ kind = "gen" /\ pc = "g_build"
    /\ stdin \in Stdins
    /\ generator \in SetupStdinGenerators \cup {"executeJavaScript"}
    /\ generated = NoGenerated /\ prog = NoProg

\* const encodedStdin = btoa(stdin); return `... atob("${encodedStdin}") ...`
setupStdin ==
    /\ kind = "gen" /\ pc = "g_build" /\ generator \in SetupStdinGenerators
    /\ generated' = IF BtoaThrows(stdin)
                    THEN [thrown |-> TRUE, literal |-> <<>>, source |-> <<>>]
                    ELSE [thrown |-> FALSE, literal |-> Btoa(stdin),
                          source |-> SetupStdinText(IF generator = "setupStdin.javascript"
                                                    THEN "javascript" ELSE "python")]
    /\ pc' = "g_done"
    /\ UNCHANGED <<kind, stdin, generator, prog, offGeneration>>

\* const stdin = "${testCase.stdin.replace(/"/g, '\\"')}";
executeJavaScript ==
    /\ kind = "gen" /\ pc = "g_build" /\ generator = "executeJavaScript"
    /\ generated' = [thrown |-> FALSE, literal |-> EscapeQuotes(stdin),
                     source |-> <<"setup", "code", "output">>]
    /\ pc' = "g_done"
    /\ UNCHANGED <<kind, stdin, generator, prog, offGeneration>>

\* The source generators that take a language.
LanguageGenerators == {"injectStdin", "executeCode"}

InitSourceText ==
    /\ kind = "gen" /\ pc = "g_build"
    /\ stdin \in Stdins
    /\ generator \in LanguageGenerators
    /\ lang \in (IF generator = "injectStdin" THEN SandboxLanguages ELSE Languages)
    /\ generated = NoGenerated /\ prog = NoProg
    /\ nTests = 1 /\ i = 0 /\ results = <<>> /\ retval = <<>>
    /\ log = <<>> /\ compileResult = NoCompile
    /\ req = GoodRequest /\ frames = <<>> /\ wsOpen = TRUE /\ sendThrows = FALSE
    /\ exc = FALSE
    /\ tasks = <<>> /\ order = <<>> /\ response = <<>>
    /\ compiled = FALSE /\ rejected = {}
    /\ NoMonitor /\ NoOverlap /\ NoRateLimiter /\ NoHttp

\* SandboxRuntime.injectStdin(stdin): this.code for a compiled language,
\* otherwise setupStdin?.(this.code, stdin) || this.code.
injectStdin ==
    /\ kind = "gen" /\ pc = "g_build" /\ generator = "injectStdin"
    /\ generated' =
          IF IsCompiled(lang)
          THEN [thrown |-> FALSE, literal |-> <<>>, source |-> CodeOnly]
          ELSE IF ~HasSetupStdin(lang)
          THEN [thrown |-> FALSE, literal |-> <<>>, source |-> CodeOnly]
          ELSE IF BtoaThrows(stdin)
          THEN [thrown |-> TRUE, literal |-> <<>>, source |-> <<>>]
          ELSE [thrown |-> FALSE, literal |-> Btoa(stdin), source |-> SetupStdinText(lang)]
    /\ pc' = "g_done"
    /\ UNCHANGED <<kind, stdin, generator, prog, offGeneration>>

\* executeCode up to its writeFile: finalCode = setupStdin(stdin) + code, and
\* for java the Main class around it unless the text includes "class Main".
executeCodeFinalCode ==
    /\ kind = "gen" /\ pc = "g_build" /\ generator = "executeCode"
    /\ \E includesMain \in BOOLEAN :
          generated' =
             IF SetupCode(lang) # <<>> /\ BtoaThrows(stdin)
             THEN [thrown |-> TRUE, literal |-> <<>>, source |-> <<>>]
             ELSE [thrown |-> FALSE,
                   literal |-> IF SetupCode(lang) # <<>> THEN Btoa(stdin) ELSE <<>>,
                   source |-> IF lang = "java" /\ ~includesMain
                              THEN <<"public class Main {">> \o SetupCode(lang)
                                       \o CodeOnly \o <<"}">>
                              ELSE SetupCode(lang) \o CodeOnly]
    /\ pc' = "g_done"
    /\ UNCHANGED <<kind, stdin, generator, prog, offGeneration>>

\* ------------------------------------------------ the replacement input()
\* Number of input() calls the modelled program makes at most.
MaxInputCalls == 4

B64Index(ch) == IF ch = "=" THEN 0 ELSE (CHOOSE a \in 1..64 : Base64Alphabet[a] = ch) - 1

CharOfCode(c) == CHOOSE ch \in StdinChars : CharCode(ch) = c

\* The one to three characters a group of four base64 characters stands for.
AtobGroup(g) ==
    LET v == B64Index(g[1]) * 262144 + B64Index(g[2]) * 4096
               + B64Index(g[3]) * 64 + B64Index(g[4])
        n == IF g[3] = "=" THEN 1 ELSE IF g[4] = "=" THEN 2 ELSE 3
        bytes == <<v \div 65536, (v \div 256) % 256, v % 256>>
    IN  [k \in 1..n |-> CharOfCode(bytes[k])]

\* atob(encodedStdin); base64.b64decode(encodedStdin).decode() for ASCII
RECURSIVE Atob(_)
Atob(t) == IF t = <<>> THEN <<>> ELSE AtobGroup(SubSeq(t, 1, 4)) \o Atob(SubSeq(t, 5, Len(t)))

Reverse(ls) == [k \in 1..Len(ls) |-> ls[Len(ls) + 1 - k]]

\* Mutant of JsInputLines: the lines are not trimmed.
JsInputLines_NoTrim(encoded) == Reverse(SplitLines(Atob(encoded)))

\* atob("...").split("\n").map(line => line.trim()).reverse()
JsInputLines(encoded) ==
    LET ls == SplitLines(Atob(encoded))
    IN  Reverse([k \in 1..Len(ls) |-> Trim(ls[k])])

\* base64.b64decode("...").decode().strip().split("\n")
PyInputLines(encoded) == SplitLines(Trim(Atob(encoded)))

\* The generated program starts: its preamble builds the lines.
RunPreamble ==
    /\ kind = "gen" /\ pc = "g_done" /\ generator \in SetupStdinGenerators
    /\ ~generated.thrown
    /\ prog' = [lines |-> IF generator = "setupStdin.javascript"
                          THEN JsInputLines(generated.literal)
                          ELSE PyInputLines(generated.literal),
                index |-> 0, returned |-> <<>>]
    /\ pc' = "g_run"
    /\ UNCHANGED <<kind, stdin, generator, generated, offGeneration>>

\* The user code calls input(): lines.pop() || "" in javascript, the line at
\* _input_index (or "") in python.
input ==
    /\ kind = "gen" /\ pc = "g_run" /\ Len(prog.returned) < MaxInputCalls
    /\ IF generator = "setupStdin.javascript"
       THEN prog' = [lines |-> PopRest(prog.lines), index |-> prog.index,
                     returned |-> Append(prog.returned, PopValue(prog.lines))]
       ELSE IF prog.index < Len(prog.lines)
       THEN prog' = [prog EXCEPT !.index = prog.index + 1,
                                 !.returned = Append(prog.returned, prog.lines[prog.index + 1])]
       ELSE prog' = [prog EXCEPT !.returned = Append(prog.returned, <<>>)]
    /\ UNCHANGED <<kind, pc, stdin, generator, generated, offGeneration>>

SourceGeneration ==
    \/ setupStdin \/ executeJavaScript \/ injectStdin \/ executeCodeFinalCode
    \/ RunPreamble \/ input

InitGen ==
    \/ NoSession /\ NoMonitor /\ NoOverlap /\ NoRateLimiter /\ NoHttp /\ InitGeneration
    \/ InitSourceText

\* ------------------------------- SandboxRuntime.run calls in flight at once
\* run is async and the class keeps no lock: a caller that starts a run before
\* the previous one settled has both suspended at their awaits.
NoRead == [stdin |-> Unwritten, source |-> Unwritten, marker |-> FALSE]

InitOverlap ==
    /\ kind = "overlap"
    /\ lang \in RuntimeLanguages
    /\ nTests \in 1..MaxTests
    /\ pc = "overlap"
    /\ i = 0 /\ results = <<>> /\ retval = <<>> /\ log = <<>>
    /\ compileResult = NoCompile
    /\ req = GoodRequest /\ frames = <<>> /\ wsOpen = TRUE
    /\ sendThrows = FALSE /\ exc = FALSE
    /\ tasks = <<>> /\ order = <<>> /\ response = <<>>
    /\ compiled = FALSE /\ rejected = {}
    /\ NoMonitor /\ NoGeneration /\ NoRateLimiter /\ NoHttp
    /\ calls = [t \in 1..nTests |-> "writeStdin"]
    /\ fsys = EmptySandbox
    /\ reads = [t \in 1..nTests |-> NoRead]
    /\ workload = NoWorkload

\* injectStdin(stdin): this.code for a compiled language, else setupStdin's text
InjectStdin(t) == IF IsCompiled(lang) THEN PlainCode ELSE t - 1

\* A sandbox call of run call t: it succeeds, with its effect on the files and
\* the call's next position, or it throws and the call's promise rejects.
OvCall(t, file, content, next) ==
    \/ /\ calls' = [calls EXCEPT ![t] = next]
       /\ fsys' = IF file = "none" THEN fsys ELSE [fsys EXCEPT ![file] = content]
    \/ /\ calls' = [calls EXCEPT ![t] = "rejected"]
       /\ fsys' = fsys

\* await this.writeStdin(input.stdin)
OvWriteStdin(t) ==
    /\ calls[t] = "writeStdin"
    /\ OvCall(t, "stdin", t - 1, "writeCode")
    /\ UNCHANGED reads

\* await this.writeCode(await this.injectStdin(input.stdin))
OvWriteCode(t) ==
    /\ calls[t] = "writeCode"
    /\ OvCall(t, "source", InjectStdin(t), "compileIfNeeded")
    /\ UNCHANGED reads

\* compileIfNeeded: return true, or await this.writeCode(this.code)
OvCompileIfNeeded(t) ==
    /\ calls[t] = "compileIfNeeded"
    /\ IF IsCompiled(lang)
       THEN OvCall(t, "source", PlainCode, "compileExec")
       ELSE calls' = [calls EXCEPT ![t] = "executeTimed"] /\ fsys' = fsys
    /\ UNCHANGED reads

\* await this.sandbox.exec(this.languageConfig.compileCommand)
OvCompileExec(t) ==
    /\ calls[t] = "compileExec"
    /\ OvCall(t, "none", PlainCode, "executeTimed")
    /\ UNCHANGED reads

\* await this.sandbox.exec(monitorCommand): the command reads both files
OvExecuteTimed(t) ==
    /\ calls[t] = "executeTimed"
    /\ \/ /\ calls' = [calls EXCEPT ![t] = "returned"]
          /\ reads' = [reads EXCEPT ![t] = fsys]
       \/ /\ calls' = [calls EXCEPT ![t] = "rejected"]
          /\ reads' = reads
    /\ fsys' = fsys

OverlappingRuns ==
    /\ kind = "overlap"
    /\ \E t \in 1..nTests :
          \/ OvWriteStdin(t) \/ OvWriteCode(t) \/ OvCompileIfNeeded(t)
          \/ OvCompileExec(t) \/ OvExecuteTimed(t)
    /\ UNCHANGED <<kind, lang, nTests, workload, offOverlap>>

\* ------------------------------------------------- RateLimiter (one client)
\* const windowMs = 60 * 1e3; const maxRequests = 5
windowMs == 60000
maxRequests == 5

\* Most checks a modelled client makes, and most of them awaiting at once.
MaxChecks == 7
MaxInFlight == 2

\* The milliseconds that pass between two arrivals.
Advances == {0, 1, 1000, 59999, 60000}

InitRateLimiter ==
    /\ kind = "rate" /\ pc = "rate"
    /\ clock = 0 /\ stored = <<>> /\ inflight = <<>> /\ answers = <<>>
    /\ clients = <<>>

InitRate == NoSession /\ NoMonitor /\ NoGeneration /\ NoOverlap /\ NoHttp /\ InitRateLimiter

\* Mutant of InputGateOpen: events are delivered to the object while a call
\* is awaiting its storage read.
InputGateOpen_Always == TRUE

\* The Durable Object delivers no new event while a call awaits storage.
InputGateOpen == inflight = <<>>

\* requests.filter((timestamp) => now - timestamp < windowMs)
FilterWindow(requests, t) == SelectSeq(requests, LAMBDA ts : t - ts < windowMs)

\* const now = Date.now(); let requests = await this.state.storage.get("requests") || []
RlGet ==
    /\ kind = "rate" /\ InputGateOpen
    /\ Len(inflight) < MaxInFlight
    /\ Len(answers) + Len(inflight) < MaxChecks
    /\ \E d \in Advances :
          /\ clock' = clock + d
          /\ inflight' = Append(inflight, [now |-> clock + d, requests |-> stored])
    /\ UNCHANGED <<stored, answers>>

\* Math.ceil((oldestRequest + windowMs - now) / 1e3)
RetryAfter(oldestRequest, t) == (oldestRequest + windowMs - t + 999) \div 1000

\* Mutant of RlRespond: a rejected check is recorded like an accepted one.
RlRespond_RecordsRejected ==
    /\ kind = "rate"
    /\ \E k \in 1..Len(inflight) :
          LET call == inflight[k]
              requests == FilterWindow(call.requests, call.now)
          IN  /\ inflight' = [j \in 1..(Len(inflight) - 1) |->
                                 IF j < k THEN inflight[j] ELSE inflight[j + 1]]
              /\ IF Len(requests) >= maxRequests
                 THEN /\ answers' = Append(answers,
                                       [at |-> call.now, status |-> 429,
                                        retryAfter |-> RetryAfter(requests[1], call.now)])
                      /\ stored' = Append(requests, call.now)
                 ELSE /\ answers' = Append(answers,
                                       [at |-> call.now, status |-> 200, retryAfter |-> 0])
                      /\ stored' = Append(requests, call.now)
    /\ UNCHANGED clock

\* The rest of checkRateLimit, from the filter to the Response.
RlRespond ==
    /\ kind = "rate"
    /\ \E k \in 1..Len(inflight) :
          LET call == inflight[k]
              requests == FilterWindow(call.requests, call.now)
          IN  /\ inflight' = [j \in 1..(Len(inflight) - 1) |->
                                 IF j < k THEN inflight[j] ELSE inflight[j + 1]]
              /\ IF Len(requests) >= maxRequests
                 THEN /\ answers' = Append(answers,
                                       [at |-> call.now, status |-> 429,
                                        retryAfter |-> RetryAfter(requests[1], call.now)])
                      /\ stored' = stored
                 ELSE /\ answers' = Append(answers,
                                       [at |-> call.now, status |-> 200, retryAfter |-> 0])
                      /\ stored' = Append(requests, call.now)
    /\ UNCHANGED clock

checkRateLimit ==
    /\ RlGet \/ RlRespond
    /\ UNCHANGED <<kind, lang, nTests, clients, offRate>>

\* ------------------------------------------- the rate limiter of each client
\* Two clients at different addresses; each sends its execute requests over
\* HTTP (/api/execute) or on a WebSocket (/api/execute-stream).
ClientIds == {1, 2}
ClientAddress == <<"198.51.100.1", "198.51.100.2">>
Routes == {"/api/execute", "/api/execute-stream"}

\* Most checks the two clients make together.
MaxClientChecks == 6

\* The name the RateLimiter object is looked up by (idFromName): on the HTTP
\* route the CF-Connecting-IP header, on the socket the constant.
clientIP(c) ==
    IF clients[c] = "/api/execute-stream" THEN "websocket-user" ELSE ClientAddress[c]

RateLimiterNames == {"websocket-user"} \cup {ClientAddress[c] : c \in ClientIds}

InitClients ==
    /\ kind = "clients" /\ pc = "clients"
    /\ clients \in [ClientIds -> Routes]
    /\ clock = 0
    /\ stored = [n \in RateLimiterNames |-> <<>>]
    /\ inflight = <<>> /\ answers = <<>>
    /\ NoSession /\ NoMonitor /\ NoGeneration /\ NoOverlap /\ NoHttp

\* A request of client c reaches the rate-limit check: the object named
\* clientIP(c) runs checkRateLimit, one call at a time.
WorkerCheckRateLimit(c) ==
    /\ kind = "clients" /\ Len(answers) < MaxClientChecks
    /\ \E d \in {0, windowMs} :
          LET t == clock + d
              name == clientIP(c)
              requests == FilterWindow(stored[name], t)
          IN  /\ clock' = t
              /\ IF Len(requests) >= maxRequests
                 THEN /\ answers' = Append(answers,
                             [client |-> c, at |-> t, status |-> 429,
                              retryAfter |-> RetryAfter(requests[1], t)])
                      /\ stored' = stored
                 ELSE /\ answers' = Append(answers,
                             [client |-> c, at |-> t, status |-> 200, retryAfter |-> 0])
                      /\ stored' = [stored EXCEPT ![name] = Append(requests, t)]
    /\ UNCHANGED <<kind, lang, nTests, clients, inflight, offRate>>

ClientsChecked == \E c \in ClientIds : WorkerCheckRateLimit(c)

\* ------------------------------------------------ fetch, handleCodeExecution
\* const allowedOrigins = [...]
allowedOrigins ==
    {"http://localhost:5173", "https://ukoly-monorepo.mborishall.workers.dev"}

\* request.headers.get("Origin") || "": an allowed origin, another one, none.
Origins == {"http://localhost:5173", "https://other.example", ""}

Methods == {"OPTIONS", "POST", "GET"}
Paths == {"/api/execute", "/api/execute-stream", "/"}

HttpRequests ==
    [method : Methods, origin : Origins, path : Paths, upgrade : BOOLEAN]

HttpResponse(status, body) == [status |-> status, body |-> body]

\* A request arrives at the worker; req is its body (or, on the streaming
\* path, the message the client sends on the accepted socket).
InitHttp ==
    /\ kind = "http"
    /\ httpReq \in HttpRequests
    /\ httpReq.path # "/api/execute-stream" => ~httpReq.upgrade
    /\ httpRes = NoHttpRes /\ users = <<>>
    /\ pc = "fetch"
    /\ req \in Requests
    /\ lang \in SessionLanguages
    /\ nTests \in (0..MaxTests) \cup {MaxTestCases + 1}
    /\ (req.known /\ nTests <= MaxTestCases) \/ lang = "javascript"
    /\ i = 0 /\ results = <<>> /\ retval = <<>> /\ log = <<>>
    /\ compileResult = NoCompile
    /\ frames = <<>> /\ wsOpen = TRUE
    /\ sendThrows \in BOOLEAN
    /\ httpReq.path # "/api/execute-stream" => ~sendThrows
    /\ exc = FALSE
    /\ tasks = <<>> /\ order = <<>> /\ response = <<>>
    /\ compiled = FALSE /\ rejected = {}
    /\ NoMonitor /\ NoGeneration /\ NoOverlap /\ NoRateLimiter

\* Mutant of OriginAllowed: the origin check is switched off.
OriginAllowed_Any(origin) == TRUE

\* allowedOrigins.includes(origin || "")
OriginAllowed(origin) == origin \in allowedOrigins

\* fetch up to its return: the preflight answer, the origin check, then the
\* route. The streaming route accepts the socket and registers the message
\* listener; the execute route calls handleCodeExecution, which first awaits
\* the rate limiter.
fetch ==
    /\ kind = "http" /\ pc = "fetch"
    /\ IF httpReq.method = "OPTIONS"
       THEN /\ httpRes' = HttpResponse(200, "")
            /\ pc' = "done" /\ kind' = kind
       ELSE IF ~OriginAllowed(httpReq.origin)
       THEN /\ httpRes' = HttpResponse(403, "Forbidden")
            /\ pc' = "done" /\ kind' = kind
       ELSE IF httpReq.path = "/api/execute-stream"
       THEN IF ~httpReq.upgrade
            THEN /\ httpRes' = HttpResponse(426, "Expected Upgrade: websocket")
                 /\ pc' = "done" /\ kind' = kind
            ELSE /\ httpRes' = HttpResponse(101, "")
                 /\ pc' = "ws_message" /\ kind' = "stream"
       ELSE IF httpReq.path = "/api/execute" /\ httpReq.method = "POST"
       THEN /\ httpRes' = httpRes
            /\ pc' = "h_rateLimit" /\ kind' = kind
       ELSE /\ httpRes' = HttpResponse(404, "Not found")
            /\ pc' = "done" /\ kind' = kind
    /\ UNCHANGED <<httpReq, lang, nTests, offHttp>>

\* The rate limiter answered: if (rateLimitResponse.status !== 200) return it;
\* otherwise await request.json().
HceRateLimit ==
    /\ kind = "http" /\ pc = "h_rateLimit"
    /\ IF req.rate # 200
       THEN /\ httpRes' = HttpResponse(req.rate, "Rate limit exceeded")
            /\ pc' = "done"
       ELSE /\ httpRes' = httpRes
            /\ pc' = "h_body"
    /\ UNCHANGED <<kind, httpReq, lang, nTests, offHttp>>

\* The body was read: request.json() threw (the catch block answers 500), or
\* the request is validated, its test cases counted, its language looked up,
\* and executeCodeSequential is called.
HceValidate ==
    /\ kind = "http" /\ pc = "h_body"
    /\ IF ~req.json
       THEN /\ httpRes' = HttpResponse(500, "Internal server error")
            /\ pc' = "done" /\ kind' = kind
       ELSE IF ~req.fields
       THEN /\ httpRes' = HttpResponse(400, "Invalid request")
            /\ pc' = "done" /\ kind' = kind
       ELSE IF nTests > MaxTestCases
       THEN /\ httpRes' = HttpResponse(400, "Too many test cases")
            /\ pc' = "done" /\ kind' = kind
       ELSE IF ~req.known
       THEN /\ httpRes' = HttpResponse(400, "Language not supported")
            /\ pc' = "done" /\ kind' = kind
       ELSE /\ httpRes' = httpRes
            /\ pc' = "start" /\ kind' = "seq"
    /\ UNCHANGED <<httpReq, lang, nTests, offHttp>>

\* return new Response(JSON.stringify({ results }), { status: 200, ... })
HceRespond ==
    /\ kind = "seq" /\ pc = "done"
    /\ httpReq # NoHttpReq /\ httpRes = NoHttpRes
    /\ httpRes' = HttpResponse(200, "results")
    /\ UNCHANGED <<kind, pc, httpReq, lang, nTests, offHttp>>

handleCodeExecution == HceRateLimit \/ HceValidate \/ HceRespond

\* ------------------------------------ one sandbox for all test cases
\* The programs a modelled submission is: "echo" prints its stdin and exits 0;
\* "once" exits 1 when its marker file exists, and otherwise creates it,
\* prints its stdin and exits 0.
Programs == {"echo", "once"}

\* The stdin contents of the modelled test cases.
StdinIds == {0, 1}

\* What the program does in a sandbox whose files are f, reading stdin s.
ProgramRun(program, f, s) ==
    IF program = "once" /\ f.marker
    THEN [exitCode |-> 1, stdout |-> Unwritten, marker |-> TRUE]
    ELSE [exitCode |-> 0, stdout |-> s, marker |-> (program = "once") \/ f.marker]

\* The loop of executeCodeSequential is about to run its first test case:
\* the sandbox was created for this session and holds the source only.
InitShared ==
    /\ kind = "shared"
    /\ lang \in RuntimeLanguages
    /\ nTests \in 1..MaxTests
    /\ pc = "s_prepare"
    /\ i = 0 /\ results = <<>> /\ retval = <<>> /\ log = <<>>
    /\ compileResult = NoCompile
    /\ req = GoodRequest /\ frames = <<>> /\ wsOpen = TRUE
    /\ sendThrows = FALSE /\ exc = FALSE
    /\ tasks = <<>> /\ order = <<>> /\ response = <<>>
    /\ compiled = FALSE /\ rejected = {}
    /\ NoMonitor /\ NoGeneration /\ NoRateLimiter /\ NoHttp
    /\ calls = <<>> /\ reads = <<>>
    /\ fsys = [EmptySandbox EXCEPT !.source = PlainCode]
    /\ workload \in [program : Programs, stdins : [1..nTests -> StdinIds]]

\* The outcome pushed for a test case, as far as the session is followed here.
SharedOutcome(idx, ec, stdout, err) ==
    [testCaseIndex |-> idx, exitCode |-> ec, stdout |-> stdout, error |-> err]

\* The per-test catch block.
ShCatch ==
    /\ \E msg \in ErrMsgs : results' = Append(results, SharedOutcome(i, 1, Unwritten, msg))
    /\ i' = i + 1
    /\ pc' = IF i + 1 < nTests THEN "s_prepare" ELSE "s_done"

\* The source with the stdin setup (interpreted) or /app/stdin.txt (compiled)
\* is written for test case i.
ShPrepare ==
    /\ kind = "shared" /\ pc = "s_prepare"
    /\ \/ /\ fsys' = IF IsCompiled(lang)
                     THEN [fsys EXCEPT !.stdin = workload.stdins[i + 1]]
                     ELSE [fsys EXCEPT !.source = workload.stdins[i + 1]]
          /\ pc' = "s_exec"
          /\ UNCHANGED <<i, results>>
       \/ ShCatch /\ fsys' = fsys
    /\ UNCHANGED <<kind, lang, nTests, workload, calls, reads, retval, log, compileResult,
                   wsVars, batchVars, rtVars, monVars, genVars, rlVars, httpVars>>

\* const result = await sandbox.exec(monitorCommand); results.push({...})
ShExec ==
    /\ kind = "shared" /\ pc = "s_exec"
    /\ \/ LET s == IF IsCompiled(lang) THEN fsys.stdin ELSE fsys.source
              r == ProgramRun(workload.program, fsys, s)
          IN  /\ results' = Append(results, SharedOutcome(i, r.exitCode, r.stdout, NoError))
              /\ fsys' = [fsys EXCEPT !.marker = r.marker]
              /\ i' = i + 1
              /\ pc' = IF i + 1 < nTests THEN "s_prepare" ELSE "s_done"
       \/ ShCatch /\ fsys' = fsys
    /\ UNCHANGED <<kind, lang, nTests, workload, calls, reads, retval, log, compileResult,
                   wsVars, batchVars, rtVars, monVars, genVars, rlVars, httpVars>>

SharedSandboxSession == ShPrepare \/ ShExec

\* ------------------------------------- two execute requests on one socket
\* The client sends two execute messages on one accepted socket, the second
\* at any time after the first. Each message event starts the async listener
\* of its own; a listener runs until its next await.
RequestIds == {1, 2}

SocketFrame(h, type, idx) == [request |-> h, type |-> type, testCaseIndex |-> idx]

InitSocket ==
    /\ kind = "socket" /\ pc = "socket"
    /\ lang = "javascript" /\ nTests \in 0..MaxTests
    /\ i = 0 /\ results = <<>> /\ retval = <<>> /\ log = <<>>
    /\ compileResult = NoCompile
    /\ req = GoodRequest /\ frames = <<>> /\ wsOpen = TRUE
    /\ sendThrows = FALSE /\ exc = FALSE
    /\ tasks = [h \in RequestIds |-> [pc |-> "unsent", i |-> 0]]
    /\ order = <<>> /\ response = <<>>
    /\ compiled = FALSE /\ rejected = {}
    /\ NoMonitor /\ NoGeneration /\ NoOverlap /\ NoRateLimiter /\ NoHttp

offSocket ==
    <<kind, sessVars, req, wsOpen, sendThrows, exc, order, response,
      rtVars, monVars, genVars, ovVars, rlVars, httpVars>>

\* The message event of request h: JSON.parse, then await rateLimiter.fetch.
SoMessage(h) ==
    /\ tasks[h].pc = "unsent"
    /\ h = 2 => tasks[1].pc # "unsent"
    /\ tasks' = [tasks EXCEPT ![h].pc = "rateLimit"]
    /\ frames' = frames

\* The rate limiter answered 200, the request is valid: executeCodeStreaming
\* is called, creates its sandbox and awaits the hello command.
SoValidated(h) ==
    /\ tasks[h].pc = "rateLimit"
    /\ tasks' = [tasks EXCEPT ![h].pc = "setup"]
    /\ frames' = frames

\* The hello command and the source write returned: the loop starts, or with
\* no test case the complete frame is sent; a call that threw sends the error
\* frame of the outer catch.
SoSetup(h) ==
    /\ tasks[h].pc = "setup"
    /\ \/ /\ nTests > 0
          /\ tasks' = [tasks EXCEPT ![h].pc = "test"]
          /\ frames' = frames
       \/ /\ nTests = 0
          /\ tasks' = [tasks EXCEPT ![h].pc = "finally"]
          /\ frames' = Append(frames, SocketFrame(h, "complete", -1))
       \/ /\ tasks' = [tasks EXCEPT ![h].pc = "finally"]
          /\ frames' = Append(frames, SocketFrame(h, "error", -1))

\* The monitor command of test case i returned (or a call of the iteration
\* threw): its result frame is sent, and after the last one the complete
\* frame.
SoTest(h) ==
    /\ tasks[h].pc = "test"
    /\ LET idx == tasks[h].i
           sent == Append(frames, SocketFrame(h, "result", idx))
       IN  IF idx + 1 < nTests
           THEN /\ tasks' = [tasks EXCEPT ![h].i = idx + 1]
                /\ frames' = sent
           ELSE /\ tasks' = [tasks EXCEPT ![h].i = idx + 1, ![h].pc = "finally"]
                /\ frames' = Append(sent, SocketFrame(h, "complete", -1))

\* finally: await sandbox.destroy()
SoFinally(h) ==
    /\ tasks[h].pc = "finally"
    /\ tasks' = [tasks EXCEPT ![h].pc = "done"]
    /\ frames' = frames

TwoRequestsOnSocket ==
    /\ kind = "socket"
    /\ \E h \in RequestIds :
          SoMessage(h) \/ SoValidated(h) \/ SoSetup(h) \/ SoTest(h) \/ SoFinally(h)
    /\ UNCHANGED offSocket

\* ------------------------------------------- auth worker: POST /register
\* Concurrent /register requests against one D1 database. A request runs
\* from one await to the next: request.json and the validation, the SELECT,
\* the INSERT. The table starts empty.
MaxRegistrations == 3
MinUsernameLength == 3
MaxUsernameLength == 32
MinPasswordLength == 8
MaxPasswordLength == 32

Registrations == 1..MaxRegistrations

UsernameChars == {"a", "b", "_", "-", "0"}

\* validateUsername: /^[a-zA-Z_\-0-9]{3,32}$/
validateUsername(username) ==
    /\ Len(username) >= MinUsernameLength
    /\ Len(username) <= MaxUsernameLength
    /\ \A k \in 1..Len(username) : username[k] \in UsernameChars

\* validatePassword, on the length of the password
validatePassword(password) ==
    password >= MinPasswordLength /\ password <= MaxPasswordLength

\* The bodies sent: two usernames that pass, one too short, one with a
\* character outside the class, a missing one; passwords by length.
RegisterBodies ==
    {[username |-> <<"a", "b", "0">>, password |-> 8],
     [username |-> <<"b", "_", "-">>, password |-> 8],
     [username |-> <<"a", "b", "0">>, password |-> 7],
     [username |-> <<"a", "b", "0">>, password |-> 0],
     [username |-> <<"a", "b">>, password |-> 8],
     [username |-> <<"a", " ", "b">>, password |-> 8],
     [username |-> <<>>, password |-> 8]}

AuthResponse(status, error) == [status |-> status, error |-> error]

NoAuthResponse == AuthResponse(0, "")

InitRegister ==
    /\ kind = "register" /\ pc = "register"
    /\ lang = "javascript" /\ nTests = 0
    /\ i = 0 /\ results = <<>> /\ retval = <<>> /\ log = <<>>
    /\ compileResult = NoCompile
    /\ req = GoodRequest /\ frames = <<>> /\ wsOpen = FALSE
    /\ sendThrows = FALSE /\ exc = FALSE
    /\ tasks \in [Registrations ->
                    {[pc |-> "received", body |-> b, res |-> NoAuthResponse] :
                        b \in RegisterBodies}]
    /\ order = <<>> /\ response = <<>>
    /\ compiled = FALSE /\ rejected = {}
    /\ NoMonitor /\ NoGeneration /\ NoOverlap /\ NoRateLimiter
    /\ httpReq = NoHttpReq /\ httpRes = NoHttpRes /\ users = <<>>

offRegister ==
    <<kind, sessVars, wsVars, order, response, rtVars, monVars, genVars,
      ovVars, rlVars, httpReq, httpRes>>

Respond(r, status, error) ==
    [tasks EXCEPT ![r].pc = "done", ![r].res = AuthResponse(status, error)]

\* await request.json(), then the three checks of the body
RegValidate(r) ==
    /\ tasks[r].pc = "received"
    /\ LET body == tasks[r].body
       IN  IF body.username = <<>> \/ body.password = 0
           THEN tasks' = Respond(r, 400, "Username and password are required")
           ELSE IF ~validateUsername(body.username)
           THEN tasks' = Respond(r, 400, "Username must be 3-32 characters and contain only letters, numbers, underscores, and hyphens")
           ELSE IF ~validatePassword(body.password)
           THEN tasks' = Respond(r, 400, "Password must be 8-32 characters long")
           ELSE tasks' = [tasks EXCEPT ![r].pc = "select"]
    /\ users' = users

\* SELECT id FROM users WHERE username = ? ... .first()
RegSelect(r) ==
    /\ tasks[r].pc = "select"
    /\ IF \E k \in 1..Len(users) : users[k].username = tasks[r].body.username
       THEN tasks' = Respond(r, 409, "Username already exists")
       ELSE tasks' = [tasks EXCEPT ![r].pc = "insert"]
    /\ users' = users

\* generateSalt, hashPassword, then INSERT INTO users ... .run(). The column
\* username is UNIQUE: with a row of that name in the table the statement
\* adds none, and run() either throws, which the catch of fetch answers, or
\* returns a result whose success is false.
RegInsert(r) ==
    /\ tasks[r].pc = "insert"
    /\ IF \E k \in 1..Len(users) : users[k].username = tasks[r].body.username
       THEN /\ users' = users
            /\ \/ tasks' = Respond(r, 500, "Internal server error")
               \/ tasks' = Respond(r, 500, "Failed to create user")
       ELSE /\ users' = Append(users, [id |-> Len(users) + 1,
                                       username |-> tasks[r].body.username])
            /\ tasks' = Respond(r, 201, "")

handleRegister ==
    /\ kind = "register"
    /\ \E r \in Registrations : RegValidate(r) \/ RegSelect(r) \/ RegInsert(r)
    /\ UNCHANGED offRegister

\* ------------------------------------------------------------ the model
Init ==
    \/ InitSeq \/ InitStream \/ InitBatch \/ InitRuntime
    \/ InitMonitor \/ InitBackground \/ InitGen \/ InitOverlap \/ InitRate
    \/ InitHttp \/ InitShared \/ InitClients \/ InitSocket
    \/ InitRegister

Next ==
    \/ executeCodeSequential
    \/ handleWebSocketConnection
    \/ executeCodeStreaming
    \/ handleCodeExecutionParallel
    \/ SandboxRuntimeRun
    \/ TimeoutMonitor
    \/ PollingMonitor
    \/ BackgroundMonitor
    \/ SourceGeneration
    \/ OverlappingRuns
    \/ checkRateLimit
    \/ fetch
    \/ handleCodeExecution
    \/ SharedSandboxSession
    \/ ClientsChecked
    \/ TwoRequestsOnSocket
    \/ handleRegister

Spec == Init /\ [][Next]_vars

\* ------------------------------------------- the sampling monitors, running
\* The polling and the background-monitor scripts with the processes the
\* operating system keeps running: the script of the polling variant, and the
\* main shell and the monitoring subshell of the background variant, each
\* take their next step when they have one. Nothing is assumed about the
\* monitored program: it may never exit by itself.
PollScript ==
    \/ PollLoopTest \/ PollTimeCheck \/ PollMemoryCheck \/ PollChildrenCheck
    \/ PollSleep \/ PollFinal \/ PollEmit

BgMainShell == BgWait \/ BgEmit

BgSubshell ==
    \/ BgLoopTest \/ BgMemoryCheck \/ BgTimeCheck \/ BgSleep
    \/ BgRecordMemory \/ BgRecordTime

InitSampling ==
    \/ NoSession /\ NoGeneration /\ NoOverlap /\ NoRateLimiter /\ NoHttp /\ InitPollingMonitor
    \/ InitBackground

NextSampling == PollingMonitor \/ BackgroundMonitor

LiveSpec ==
    /\ InitSampling /\ [][NextSampling]_vars
    /\ WF_vars(PollScript) /\ WF_vars(BgMainShell) /\ WF_vars(BgSubshell)

\* ================================================================= claims
Destroys(l) == CountCalls(l, "destroy", "")

\* Every call recorded after a destroy: there is none when destroy, if present,
\* is the last call of the log.
NoCallAfterDestroy(l) == \A k \in 1..Len(l) : l[k].op = "destroy" => k = Len(l)

\* Test case idx (0-based) was started: a call was issued for it.
Attempted(l, idx) == \E k \in 1..Len(l) : l[k].tc = idx

MonitorRuns(l) == CountCalls(l, "exec", "monitor")

ResultFrames == SelectSeq(frames, LAMBDA f : f.type = "result")
TerminalFrames == SelectSeq(frames, LAMBDA f : f.type \in TerminalTypes)

\* The session of the streaming request is over.
StreamOver == kind = "stream" /\ pc = "done"

\* C1: in executeCodeSequential, executeCodeStreaming and the per-test
\* executeCode, every sandbox that was used is destroyed exactly once by the
\* time its executor has finished, on every exit path, and no writeFile or
\* exec is issued to a sandbox after its destroy.
C1_TeardownExactlyOnce ==
    /\ kind \in {"seq", "stream"} =>
          /\ NoCallAfterDestroy(log)
          /\ (pc \in {"done", "ws_catch"} /\ log # <<>>) => Destroys(log) = 1
    /\ kind = "batch" =>
          \A t \in 1..nTests :
             /\ NoCallAfterDestroy(tasks[t].log)
             /\ tasks[t].pc = "done" => Destroys(tasks[t].log) = 1

\* A streaming session abandoned in its loop because the client disconnected
\* and the send threw, with its sandbox destroyed once.
C1_Witness ==
    /\ StreamOver /\ ~wsOpen /\ exc
    /\ Attempted(log, 0)
    /\ Destroys(log) = 1

\* C2: in executeCodeSequential, once the compile command has exited non-zero,
\* no monitor command is run, and the returned list has exactly nTests
\* outcomes, all carrying the same diagnostic text (the compiler's stderr, or
\* "Compilation failed" when stderr is empty).
C2_CompileFailureOutcomes ==
    (kind = "seq" /\ compileResult.exitCode \notin {-1, 0}) =>
        /\ MonitorRuns(log) = 0
        /\ pc \in {"finally", "done"}
        /\ Len(retval) = nTests
        /\ \A k \in 1..Len(retval) :
              /\ retval[k].stderr = (IF compileResult.stderr = ""
                                     THEN "Compilation failed" ELSE compileResult.stderr)
              /\ retval[k].error = "Compilation failed"
              /\ retval[k].stderr = retval[1].stderr

C2_Witness ==
    /\ kind = "seq" /\ pc = "done"
    /\ compileResult.exitCode = 1 /\ compileResult.stderr # ""
    /\ nTests = 2 /\ Len(retval) = 2

\* C3: for a compiled language the compile command is executed at most once
\* per session, and exactly once by the time a test case is executed
\* (executeCodeSequential, executeCodeStreaming, successive
\* SandboxRuntime.run calls on one SandboxRuntime).
C3_CompileOncePerSession ==
    (kind \in {"seq", "stream", "runtime"} /\ IsCompiled(lang)) =>
        /\ CountCalls(log, "exec", "compile") <= 1
        /\ MonitorRuns(log) > 0 => CountCalls(log, "exec", "compile") = 1

\* C4: once a test case of a session has been started, every test case of the
\* request is started and gets its own outcome, whatever happened to the
\* earlier ones: a result in the returned list (sequential), a result frame
\* (streaming, the client still connected).
C4_FailureDoesNotAbort ==
    /\ (kind = "seq" /\ pc = "done" /\ Attempted(log, 0)) =>
          /\ \A j \in 0..(nTests - 1) : Attempted(log, j)
          /\ Len(retval) = nTests
          /\ \A j \in 0..(nTests - 1) : retval[j + 1].testCaseIndex = j
    /\ (StreamOver /\ wsOpen /\ Attempted(log, 0)) =>
          /\ \A j \in 0..(nTests - 1) : Attempted(log, j)
          /\ Len(ResultFrames) = nTests
          /\ \A j \in 0..(nTests - 1) : ResultFrames[j + 1].data.testCaseIndex = j

\* A streaming session whose first test case failed on an infrastructure error
\* and whose second test case was still run by the monitor.
C4_Witness ==
    /\ StreamOver /\ wsOpen /\ nTests = 2
    /\ Len(ResultFrames) = 2
    /\ ResultFrames[1].data.error \in ErrMsgs
    /\ \E k \in 1..Len(log) : log[k].arg = "monitor" /\ log[k].tc = 1

\* C5: the batch response has exactly nTests results and results[k] carries
\* testCaseIndex k, in the sequential executor on every return path and in the
\* Promise.all handler whatever the order in which the executions settle.
C5_ResultsIndexed ==
    /\ (kind = "seq" /\ pc = "done") =>
          /\ Len(retval) = nTests
          /\ \A k \in 1..nTests : retval[k].testCaseIndex = k - 1
    /\ (kind = "batch" /\ pc = "done") =>
          /\ Len(response) = nTests
          /\ \A k \in 1..nTests : response[k].testCaseIndex = k - 1

\* A parallel request answered after its second execution settled first.
C5_Witness ==
    /\ kind = "batch" /\ pc = "done" /\ nTests = 2
    /\ order = <<2, 1>>
    /\ Len(response) = 2

\* C6 as stated: every execute request, whichever way its session ends, has
\* produced exactly one terminal frame when its handler is finished.
C6_ExactlyOneTerminalFrame ==
    StreamOver => Len(TerminalFrames) = 1

\* C6 amended: at most one terminal frame is ever delivered for a request and
\* no result frame follows it; a request whose client is still connected when
\* the handler finishes got exactly one terminal frame.
C6_OneTerminalFrameWhileConnected ==
    kind = "stream" =>
        /\ Len(TerminalFrames) <= 1
        /\ \A k \in 1..Len(frames) :
              frames[k].type \in TerminalTypes => k = Len(frames)
        /\ (pc = "done" /\ wsOpen) => Len(TerminalFrames) = 1

C6_Witness ==
    /\ StreamOver /\ wsOpen /\ nTests = 2
    /\ Len(frames) = 3
    /\ frames[3].type = "complete"

\* C7: the result frames delivered by executeCodeStreaming carry the indices
\* 0, 1, 2, ... in this order, and while the client is connected the result
\* frame of every test case below j is delivered before any call for test
\* case j is issued to the sandbox.
C7_ResultFramesInOrder ==
    kind = "stream" =>
        /\ \A k \in 1..Len(ResultFrames) : ResultFrames[k].data.testCaseIndex = k - 1
        /\ wsOpen => \A k \in 1..Len(log) :
                        log[k].tc >= 0 => Len(ResultFrames) >= log[k].tc

C7_Witness ==
    /\ kind = "stream" /\ pc = "exec" /\ i = 1 /\ wsOpen
    /\ Len(ResultFrames) = 1
    /\ ResultFrames[1].data.testCaseIndex = 0

\* The program printed nothing, or its output ends with a newline.
EndsWithNewline(po) == po = <<>> \/ po[Len(po)] = NL

\* A monitored run is over and the worker holds its outcome.
MonitorReported == kind \in {"tmon", "pmon", "bmon"} /\ pc = "m_done"

\* C8: no reported outcome has both timedOut and memoryExceeded set, for
\* every run of a monitor and every parse of its output by the worker.
C8_FlagsMutuallyExclusive ==
    MonitorReported => ~(out.timedOut /\ out.memoryExceeded)

\* C9: a program that exits on its own before any limit is breached, with
\* any exit code in 0..255, is reported with timedOut = false,
\* memoryExceeded = false and its real exit code.
C9_NaturalExitReported ==
    (/\ MonitorReported
     /\ consumer \in {"executeTimed", "executeCodeStreaming", "executeCode"}
     /\ rootExit.how = "exit"
     /\ signals = <<>>
     /\ kind = "pmon" => (rootExit.at < tLimit /\ mon.MAX_MEMORY <= mLimit))
    => (/\ out.timedOut = FALSE
        /\ out.memoryExceeded = FALSE
        /\ out.exitCode = rootExit.code)

C11_NoSurvivorAfterBreach ==
    (MonitorReported /\ signals # <<>>) => alive = {}

\* C12: no exception raised while writing files, compiling, running the
\* monitor or parsing its output escapes the per-test run operation: every
\* SandboxRuntime.run call that was made, and every finished test case of the
\* loop of executeCodeSequential, has produced its ExecutionResult.
C12_NoExceptionEscapesRun ==
    /\ kind = "runtime" =>
          \A j \in 0..(i - 1) : \E k \in 1..Len(results) : results[k].testCaseIndex = j
    /\ (kind = "seq" /\ pc = "loop") =>
          /\ Len(results) = i
          /\ \A j \in 0..(i - 1) : results[j + 1].testCaseIndex = j

\* The outcomes recorded for the test cases of a session.
RecordedOutcomes ==
    IF kind = "seq" THEN {results[k] : k \in 1..Len(results)}
    ELSE IF kind = "stream" THEN {ResultFrames[k].data : k \in 1..Len(ResultFrames)}
    ELSE {}

\* C13: a test case that failed for an infrastructure reason (writeFile or
\* exec threw, with any error message) is recorded with error set,
\* exitCode = 1, timedOut = false and memoryExceeded = false.
C13_InfrastructureFailureOutcome ==
    \A r \in RecordedOutcomes :
        r.error # NoError =>
            (r.exitCode = 1 /\ r.timedOut = FALSE /\ r.memoryExceeded = FALSE)

\* C14: for every outcome the reported elapsed time never exceeds the time
\* limit requested for the test case: timeMS <= timeLimitMs.
C14_ElapsedWithinLimit ==
    (/\ MonitorReported
     /\ consumer \in {"executeTimed", "executeCode"}
     /\ EndsWithNewline(progOut))
    => parsed.timeMS <= tLimit

\* C18: whichever way the run ended, the reported timeMS and memoryKB are the
\* monitor's measured elapsed time (at most the limit where the monitor cuts
\* it) and the maximum of its memory samples; after a forced termination they
\* are the last measurements, not zero and not text of the program's output.
C18_MeasurementsReported ==
    (/\ MonitorReported
     /\ consumer \in {"executeTimed", "executeCode"}
     /\ EndsWithNewline(progOut))
    => /\ parsed.memoryKB = actual.kb
       /\ parsed.timeMS = IF kind = "pmon" /\ actual.ms > tLimit THEN tLimit
                          ELSE actual.ms

\* C20: for every program output, with or without a final newline, followed
\* by the monitor's two trailer lines, the worker's parse yields stdout equal
\* to the program's output up to surrounding whitespace, timeMS equal to the
\* first trailer line and memoryKB equal to the second.
C20_TrailerParse ==
    (/\ kind = "tmon" /\ pc = "m_done"
     /\ consumer \in {"executeTimed", "executeCodeStreaming"}
     /\ mon.TIME_MS # <<>> /\ mon.MEM_KB # <<>>)
    => /\ parsed.stdout = Trim(progOut)
       /\ parsed.timeMS = actual.ms
       /\ parsed.memoryKB = actual.kb

RECURSIVE SumOver(_, _)
SumOver(f, S) ==
    IF S = {} THEN 0
    ELSE LET q == CHOOSE x \in S : TRUE IN f[q] + SumOver(f, S \ {q})

\* C15: the monitor kills for memory only on a sample strictly greater than
\* the memory limit: a run whose every sample is at most the limit, samples
\* equal to it included, is not killed for memory and not reported
\* memoryExceeded.
C15_MemoryKillStrictlyAbove ==
    /\ kind = "pmon" =>
          /\ mon.MEMORY_EXCEEDED => mon.MAX_MEMORY > mLimit
          /\ (mon.MEMORY_EXCEEDED /\ pc = "p_final") =>
                \E q \in DOMAIN sampled : sampled[q] > mLimit
          /\ (pc = "m_done" /\ out.memoryExceeded) => mon.MAX_MEMORY > mLimit
    /\ kind = "bmon" =>
          /\ files.memory = LimitExceeded => sub.max_memory > mLimit
          /\ (pc = "m_done" /\ out.memoryExceeded) => sub.max_memory > mLimit

\* A run of the polling monitor whose largest sample was exactly the limit:
\* the program ended by itself and is not reported memoryExceeded.
C15_Witness ==
    /\ kind = "pmon" /\ pc = "m_done"
    /\ mon.MAX_MEMORY = mLimit
    /\ rootExit.how = "exit"
    /\ ~out.memoryExceeded

\* C16: the time limit counts as breached at the first pass of the loop where
\* the elapsed ms are greater than or equal to the limit: a process alive at
\* a pass with elapsed equal to the limit is killed and reported timed out.
C16_TimeLimitInclusive ==
    /\ (kind = "pmon" /\ pc \in {"p_memory", "p_children", "p_sleep"} /\ 0 \in alive)
          => mon.ELAPSED_MS < tLimit
    /\ (kind = "pmon" /\ pc = "m_done" /\ mon.ELAPSED_MS >= tLimit) => out.timedOut
    /\ (kind = "bmon" /\ sub.pc = "s_sleep" /\ 0 \in alive)
          => sub.elapsed_ms < tLimit

\* C17: at every pass of the loop the value compared with the memory limit
\* and folded into the running peak is the sum of the memory of the root
\* process and of its live descendants read at that pass.
C17_SumOfTreeCompared ==
    (kind = "pmon" /\ pc = "p_sleep") =>
        /\ SumOver(sampled, DOMAIN sampled) <= mLimit
        /\ mon.MAX_MEMORY >= SumOver(sampled, DOMAIN sampled)

\* C19: on a limit breach the monitor first sends the graceful signal and
\* sends the unconditional kill only afterwards; a process that exits on the
\* graceful signal is never sent the unconditional kill.
C19_GracefulBeforeKill ==
    kind \in {"tmon", "pmon"} =>
        /\ \A k \in 1..Len(signals) :
              signals[k] = "KILL" => \E j \in 1..(k - 1) : signals[j] = "TERM"
        /\ rootExit.how = "TERM" => \A k \in 1..Len(signals) : signals[k] # "KILL"

\* C21: for every monitor exit code, executeCodeSequential and
\* executeCodeStreaming set the same timedOut and memoryExceeded flags: an
\* outcome either path built from a monitor exit code carries the flags the
\* other path builds from that exit code.
C21_SameMappingBothPaths ==
    /\ kind = "seq" =>
          \A k \in 1..Len(results) :
             results[k].error = NoError =>
                LET o == StreamMonitorOutcome(k - 1, results[k].exitCode) IN
                /\ results[k].timedOut = o.timedOut
                /\ results[k].memoryExceeded = o.memoryExceeded
    /\ kind = "stream" =>
          \A k \in 1..Len(ResultFrames) :
             ResultFrames[k].data.error = NoError =>
                LET o == SeqMonitorOutcome(k - 1, ResultFrames[k].data.exitCode) IN
                /\ ResultFrames[k].data.timedOut = o.timedOut
                /\ ResultFrames[k].data.memoryExceeded = o.memoryExceeded

\* A double-quoted string literal whose content is t ends where the generator
\* put its closing quote: t holds no unescaped quote and no unescaped newline,
\* and does not end in a backslash that would escape the closing quote.
RECURSIVE LiteralIntactFrom(_, _)
LiteralIntactFrom(t, escaped) ==
    IF t = <<>> THEN ~escaped
    ELSE IF escaped THEN LiteralIntactFrom(Tail(t), FALSE)
    ELSE IF Head(t) = "\\" THEN LiteralIntactFrom(Tail(t), TRUE)
    ELSE IF Head(t) \in {"\"", NL} THEN FALSE
    ELSE LiteralIntactFrom(Tail(t), FALSE)

IsBase64Text(t) ==
    \A k \in 1..Len(t) : t[k] = "=" \/ \E a \in 1..64 : Base64Alphabet[a] = t[k]

\* C22: for every stdin content the source of an interpreted language is
\* generated without an exception, and what it embeds of stdin is a base64
\* text, so the string literal it is put in ends at the generator's own quote.
C22_StdinEmbeddedEncoded ==
    (kind = "gen" /\ pc = "g_done") =>
        /\ ~generated.thrown
        /\ IsBase64Text(generated.literal)
        /\ LiteralIntactFrom(generated.literal, FALSE)

\* C23: in a session of a compiled language the source file is written
\* exactly once; in a session of an interpreted language the call just before
\* the monitor command of test case i is the write of the source built for
\* test case i.
C23_SourceWrites ==
    kind \in {"seq", "stream", "runtime"} =>
        /\ IsCompiled(lang) =>
              /\ CountCalls(log, "writeFile", "source") <= 1
              /\ MonitorRuns(log) > 0 => CountCalls(log, "writeFile", "source") = 1
        /\ ~IsCompiled(lang) =>
              \A k \in 1..Len(log) :
                 (log[k].op = "exec" /\ log[k].arg = "monitor") =>
                    /\ k > 1
                    /\ log[k - 1] = [op |-> "writeFile", arg |-> "source", tc |-> log[k].tc]

\* C24: once the client has closed the WebSocket, the streaming session
\* starts no further test case: its loop does not enter another iteration.
C24_NoTestStartedAfterClose ==
    [][(kind = "stream" /\ ~wsOpen /\ pc = "loop") => pc' # "prepare"]_vars

\* The test case of the last write of file `arg` before position k of l.
LastWrite(l, k, arg) ==
    LET W == {j \in 1..(k - 1) : l[j].op = "writeFile" /\ l[j].arg = arg}
    IN  IF W = {} THEN Unwritten ELSE l[CHOOSE j \in W : \A h \in W : h <= j].tc

\* C25: the command run for a test case finds in the stdin file and in the
\* source file what was written for that test case: in the loop of a session
\* and in successive run calls the last write of each file before the monitor
\* command is the one of its own test case (or the once-written source of a
\* compiled language), and so it is for run calls in flight at once.
C25_ReadsOwnFiles ==
    /\ kind \in {"seq", "stream", "runtime"} =>
          \A k \in 1..Len(log) :
             (log[k].op = "exec" /\ log[k].arg = "monitor") =>
                /\ (IsCompiled(lang) \/ kind = "runtime") =>
                      LastWrite(log, k, "stdin") = log[k].tc
                /\ LastWrite(log, k, "source") =
                      (IF IsCompiled(lang) /\ kind # "runtime" THEN -1 ELSE log[k].tc)
    /\ kind = "overlap" =>
          \A t \in 1..nTests :
             calls[t] = "returned" =>
                /\ reads[t].stdin = t - 1
                /\ reads[t].source = InjectStdin(t)

\* C26: a session of a compiled language with no test cases still runs the
\* compile command, once, before its (empty) loop; it runs no monitor command,
\* returns the empty list of outcomes (sequential) or, to a client that is
\* still connected, sends its one terminal frame and no result frame
\* (streaming).
C26_EmptySessionCompiles ==
    (kind \in {"seq", "stream"} /\ nTests = 0 /\ IsCompiled(lang)) =>
        /\ CountCalls(log, "exec", "compile") <= 1
        /\ MonitorRuns(log) = 0
        /\ pc = "loop" =>
              CountCalls(log, "exec", "compile") = 1 /\ compileResult.exitCode = 0
        /\ compileResult # NoCompile => CountCalls(log, "exec", "compile") = 1
        /\ (kind = "seq" /\ pc = "done") => retval = <<>>
        /\ (StreamOver /\ wsOpen) =>
              Len(TerminalFrames) = 1 /\ Len(ResultFrames) = 0

C26_Witness ==
    /\ kind = "stream" /\ nTests = 0 /\ IsCompiled(lang) /\ pc = "done" /\ wsOpen
    /\ CountCalls(log, "exec", "compile") = 1
    /\ compileResult.exitCode = 0
    /\ TerminalFrames = <<Frame("complete", [message |-> ""])>>

\* C27: the sampling loop of a monitor always ends and the monitor then emits
\* its result: whatever the monitored program does, the script reaches its
\* end with the result printed, and the loop of the monitoring subshell has
\* been left.
C27_LoopTerminates ==
    (kind \in {"pmon", "bmon"}) ~>
        (pc = "m_done" /\ (kind = "bmon" => sub.pc = "s_exit"))

\* A program that did not exit by itself and stayed within the memory limit:
\* the loop ended by the time limit's kill.
C27_Witness ==
    /\ pc = "m_done" /\ rootExit.how = "KILL"
    /\ \/ kind = "pmon" /\ mon.TIME_EXCEEDED /\ ~mon.MEMORY_EXCEEDED
       \/ kind = "bmon" /\ sub.pc = "s_exit" /\ sub.max_memory <= mLimit

\* The checks answered 200 among the first n answers whose time lies in the
\* windowMs before t (t included).
AcceptedInWindow(n, t) ==
    {k \in 1..n : answers[k].status = 200 /\ answers[k].at <= t /\ t - answers[k].at < windowMs}

\* C28: for one client key, at most maxRequests checks are answered 200 in
\* any window of windowMs, and every check is answered 200 or 429: 429 exactly
\* when maxRequests checks of the window before it were already answered 200.
C28_AtMostFivePerWindow ==
    kind = "rate" =>
        \A j \in 1..Len(answers) :
           /\ answers[j].status \in {200, 429}
           /\ Cardinality(AcceptedInWindow(Len(answers), answers[j].at)) <= maxRequests
           /\ answers[j].status = 429 <=>
                 Cardinality(AcceptedInWindow(j - 1, answers[j].at)) >= maxRequests

\* A check refused at the limit, and a later one accepted once the window has
\* moved past the first accepted checks.
C28_Witness ==
    /\ kind = "rate"
    /\ \E j \in 1..(Len(answers) - 1) :
          /\ answers[j].status = 429
          /\ Cardinality(AcceptedInWindow(j - 1, answers[j].at)) = maxRequests
          /\ answers[j + 1].status = 200

\* The first of the five gates the request does not pass, in the order origin
\* check, rate-limit check, body validation, test-case cap, language lookup.
C29_FirstFailedGate ==
    IF httpReq # NoHttpReq /\ httpReq.origin \notin allowedOrigins THEN "origin"
    ELSE IF req.rate # 200 THEN "rate"
    ELSE IF ~req.fields THEN "body"
    ELSE IF nTests > MaxTestCases THEN "cap"
    ELSE IF ~req.known THEN "language"
    ELSE "none"

C29_RejectionMessage ==
    [origin |-> "Forbidden", rate |-> "Rate limit exceeded",
     body |-> "Invalid request", cap |-> "Too many test cases",
     language |-> "Language not supported"]

C30_CompileFailed ==
    kind = "stream" /\ compileResult # NoCompile /\ compileResult.exitCode # 0

C30_CompilationErrorFrames ==
    SelectSeq(frames, LAMBDA f : f.type = "compilation_error")

\* C30 as stated: after a compile failure in executeCodeStreaming exactly one
\* compilation_error frame has been sent, no result frame and no complete
\* frame, and no command of a test case was issued.
C30_CompileFailureSurfacedOnce ==
    C30_CompileFailed =>
        /\ Len(C30_CompilationErrorFrames) = 1
        /\ \A k \in 1..Len(frames) : frames[k].type \notin {"result", "complete"}
        /\ \A k \in 1..Len(log) : log[k].tc < 0

\* C30 amended: after a compile failure at most one compilation_error frame
\* is delivered, and exactly one when the client is still connected; no
\* result frame and no complete frame is delivered, and no command of a test
\* case is issued.
C30_SurfacedOnceWhileConnected ==
    C30_CompileFailed =>
        /\ Len(C30_CompilationErrorFrames) <= 1
        /\ wsOpen => Len(C30_CompilationErrorFrames) = 1
        /\ \A k \in 1..Len(frames) : frames[k].type \notin {"result", "complete"}
        /\ \A k \in 1..Len(log) : log[k].tc < 0

\* A request with two test cases whose compile failed: the handler is finished
\* and the connected client holds the compilation_error frame and nothing else.
C30_Witness ==
    /\ StreamOver /\ C30_CompileFailed /\ wsOpen /\ nTests = 2
    /\ Len(frames) = 1 /\ frames[1].type = "compilation_error"

\* The sequential session left its try block before any test case was started
\* and without a failed compile: container start, source write or the compile
\* exec threw (or the request has no test case).
C31_EndedBeforeFirstTest ==
    /\ kind = "seq" /\ pc \in {"finally", "done"}
    /\ ~Attempted(log, 0)
    /\ compileResult.exitCode \in {-1, 0}

\* C31: when executeCodeSequential fails on an infrastructure error before any
\* test case starts, it returns exactly nTests outcomes, one per test case in
\* order, all carrying the message of the exception as error, with exitCode 1
\* and both limit flags false.
C31_SessionFailureOutcomes ==
    C31_EndedBeforeFirstTest =>
        /\ Len(retval) = nTests
        /\ \A k \in 1..Len(retval) :
              /\ retval[k].testCaseIndex = k - 1
              /\ retval[k].error \in ErrMsgs
              /\ retval[k].error = retval[1].error
              /\ retval[k].exitCode = 1
              /\ retval[k].timedOut = FALSE
              /\ retval[k].memoryExceeded = FALSE

\* The compile exec of a request with two test cases threw an exception whose
\* message contains "timeout".
C31_Witness ==
    /\ C31_EndedBeforeFirstTest /\ nTests = 2 /\ pc = "done"
    /\ CountCalls(log, "exec", "compile") = 1
    /\ Len(retval) = 2
    /\ MsgIncludesTimeout(retval[2].error)

\* The source text contains a preamble built from stdin.
C32_Rewritten(g) == \E k \in 1..Len(g.source) : g.source[k] = "setup"

\* C32: for every entry of the two language registries, a compiled language
\* has a compile command and its source is written without anything built
\* from stdin (injectStdin returns the code as it is); a source that carries
\* the stdin preamble belongs to an interpreted language.
C32_CompiledSourceUntouched ==
    (kind = "gen" /\ pc = "g_done" /\ generator \in LanguageGenerators) =>
        /\ IsCompiled(lang) =>
              /\ HasCompileCommand(lang)
              /\ ~generated.thrown
              /\ generated.literal = <<>>
              /\ ~C32_Rewritten(generated)
              /\ generator = "injectStdin" => generated.source = CodeOnly
        /\ C32_Rewritten(generated) => ~IsCompiled(lang)

\* The source of a cpp submission was prepared by the per-test executeCode
\* for a stdin that is not empty.
C32_Witness ==
    /\ kind = "gen" /\ pc = "g_done" /\ generator = "executeCode"
    /\ lang = "cpp" /\ stdin # <<>>
    /\ generated.source = CodeOnly

\* The k-th line of the test case's stdin; the empty text after the last one.
C33_StdinLine(k) ==
    LET ls == SplitLines(stdin)
    IN  IF k <= Len(ls) THEN ls[k] ELSE <<>>

\* C33: in the program generated for javascript and python, the k-th call of
\* the replacement input() returns the k-th line of the test case's stdin,
\* and the empty text once the lines are exhausted; the submitted code comes
\* after the preamble, unchanged.
C33_InputReturnsLines ==
    (kind = "gen" /\ pc = "g_run") =>
        /\ \A k \in 1..Len(prog.returned) : prog.returned[k] = C33_StdinLine(k)
        /\ generated.source[1] = "setup"
        /\ Cardinality({k \in 2..Len(generated.source) : generated.source[k] = "code"}) = 1

\* What the test case gives when it is the only one of a session: the program
\* starts in the sandbox as the session set it up.
C34_Alone(s) == ProgramRun(workload.program, [EmptySandbox EXCEPT !.source = PlainCode], s)

\* C34: the exitCode and stdout recorded for a test case that ran are those
\* the same code, language and stdin give when run alone in a session of
\* their own, whatever test cases came before it in its session.
C34_OutcomeDependsOnOwnInput ==
    kind = "shared" =>
        \A k \in 1..Len(results) :
            results[k].error = NoError =>
                /\ results[k].exitCode = C34_Alone(workload.stdins[k]).exitCode
                /\ results[k].stdout = C34_Alone(workload.stdins[k]).stdout

\* How often the value x occurs in the sequence q.
C35_Count(q, x) == Cardinality({k \in 1..Len(q) : q[k] = x})

\* C35: a check made exactly Retry-After seconds after a rejected check of the
\* same client, with no check in between, is accepted; and the stored list
\* holds timestamps of accepted checks only, a rejected check adds none.
C35_RetryAfterIsEnough ==
    kind = "rate" =>
        /\ \A j \in 1..(Len(answers) - 1) :
              (/\ answers[j].status = 429
               /\ answers[j + 1].at = answers[j].at + 1000 * answers[j].retryAfter)
              => answers[j + 1].status = 200
        /\ \A k \in 1..Len(stored) :
              C35_Count(stored, stored[k]) <=
                 Cardinality({j \in 1..Len(answers) :
                                 answers[j].status = 200 /\ answers[j].at = stored[k]})

\* A client refused with Retry-After: 1 came back one second later and was
\* accepted.
C35_Witness ==
    /\ kind = "rate"
    /\ \E j \in 1..(Len(answers) - 1) :
          /\ answers[j].status = 429 /\ answers[j].retryAfter = 1
          /\ answers[j + 1].at = answers[j].at + 1000
          /\ answers[j + 1].status = 200

\* The checks of client c among the first n answers that were accepted in the
\* window before time t.
C36_OwnAccepted(c, n, t) ==
    {k \in 1..n : /\ answers[k].client = c /\ answers[k].status = 200
                  /\ t - answers[k].at < windowMs}

\* C36: a check of a client is rejected only on account of that client's own
\* accepted checks of the last window: the checks of the other client, on the
\* HTTP route or on a socket, never cause it.
C36_LimitedPerClient ==
    kind = "clients" =>
        \A j \in 1..Len(answers) :
            answers[j].status = 429 =>
                Cardinality(C36_OwnAccepted(answers[j].client, j - 1, answers[j].at))
                    >= maxRequests

\* C37: of two execute requests sent on one WebSocket, every frame of the
\* first, its terminal frame included, is sent before any frame of the second.
C37_SessionsDoNotInterleave ==
    kind = "socket" =>
        \A a \in 1..Len(frames) : \A b \in 1..Len(frames) :
            (a < b /\ frames[a].request = 2) => frames[b].request # 1

\* The requests that passed the validation with this username.
C38_RequestsFor(username) ==
    {r \in Registrations :
        /\ tasks[r].body.username = username
        /\ validateUsername(username)
        /\ validatePassword(tasks[r].body.password)}

C38_AllAnswered == \A r \in Registrations : tasks[r].pc = "done"

\* the table holds at most one row of a username
C38_OneRowPerUsername ==
    kind = "register" =>
        \A a \in 1..Len(users) : \A b \in 1..Len(users) :
            users[a].username = users[b].username => a = b

\* of the answered requests for one username exactly one got 201
C38_OneCreated ==
    (kind = "register" /\ C38_AllAnswered) =>
        \A r \in Registrations :
            LET rs == C38_RequestsFor(tasks[r].body.username)
            IN  rs # {} => Cardinality({q \in rs : tasks[q].res.status = 201}) = 1

\* C38: under any interleaving of concurrent /register requests for one
\* username at most one row of that username is created, exactly one request
\* is answered 201 and every other one 409 'Username already exists'.
C38_ConcurrentRegister ==
    /\ C38_OneRowPerUsername
    /\ C38_OneCreated
    /\ (kind = "register" /\ C38_AllAnswered) =>
          \A r \in Registrations :
              \A q \in C38_RequestsFor(tasks[r].body.username) :
                  \/ tasks[q].res.status = 201
                  \/ tasks[q].res = AuthResponse(409, "Username already exists")

====
